---- MODULE Spec2Model ----
(***************************************************************************)
(* Model of the queue store of the music library (class QueueManager in    *)
(* services/QueueManager.js): the ordered play queue, the current-track    *)
(* pointer and the subscriber set, with one action per public method.      *)
(*                                                                         *)
(* Indices are the code's 0-based indices: the entry at JavaScript index i *)
(* is queue[i + 1] of the TLA+ sequence, and currentIndex = -1 means "no   *)
(* selection".                                                             *)
(***************************************************************************)
EXTENDS Integers, Sequences, FiniteSets, TLC

VARIABLES
  queue,         \* this.queue: sequence of items
  currentIndex,  \* this.currentIndex: -1 or a 0-based index
  subscribers,   \* this.subscribers: the registered callbacks, in insertion order
  lastCall,      \* the most recent call of a public method and its argument
  notified,      \* the callbacks invoked by the most recent call, in order
  stack,         \* the call stack of the statement-level specification
  delivered,     \* the snapshot handed to the callback that was invoked last
  modalVideoUrl, \* DisplaySongs: the url handed to the sidebar, or NoUrl
  queueState,    \* useQueue: the snapshot the sidebar was rendered from
  ytApi,         \* the YouTube iframe API: window.YT, youtubeApiPromise, script tags
  effects,       \* YoutubePlayer: the effect instances that can still act
  isPlaying,     \* MediaPlayer: the flag the play/pause button toggles
  playerRef,     \* MediaPlayer: playerRef.current, the iframe onReady stored
  search,        \* SearchManager: this.state and the fields beside it
  timers,        \* the pending setTimeout callbacks of the search store
  requests,      \* the queries of the search store that are in flight
  searchLog,     \* the most recent step of the search store
  db,            \* the tables of the catalogue
  creating,      \* the running createSong call
  themeManager,  \* ThemeManager: the singleton of the theme store
  bodyTheme,     \* the theme applied to the document: the theme-* class of body
  localStorage   \* localStorage: the entries of the two keys the stores use

\* the state of the player sidebar, which the methods of the store never touch
playerVars == <<modalVideoUrl, queueState, ytApi, effects, isPlaying, playerRef>>

\* the search store
searchVars == <<search, timers, requests, searchLog>>

\* the catalogue service
catalogVars == <<db, creating>>

\* the theme store and the storage of the browser
themeVars == <<themeManager, bodyTheme, localStorage>>

\* what no method of the queue store touches
otherVars == <<playerVars, searchVars, catalogVars, themeVars>>

vars == <<queue, currentIndex, subscribers, lastCall, notified, stack, delivered,
          otherVars>>

----------------------------------------------------------------------------
(* Bounds of the model *)

NumUrls == 3          \* number of distinct playable urls
MaxQueue == 3         \* cap on the queue length explored
NumSubscribers == 2   \* number of distinct subscriber callbacks

UrlPool == <<"a", "b", "c", "d", "e">>
Urls == {UrlPool[i] : i \in 1..NumUrls}
Titles == {"T1", "T2"}
SubscriberIds == 1..NumSubscribers

----------------------------------------------------------------------------
(* Items.  An item is a JavaScript object, modelled as a record whose      *)
(* domain is the set of own properties.  Null stands for a null/undefined  *)
(* argument.                                                               *)

Null == [null |-> TRUE]

\* every url without metadata, and the first url with each title
ValidItems ==
  {[url |-> u] : u \in Urls} \cup {[url |-> UrlPool[1], title |-> t] : t \in Titles}

\* null, an object without url, an object with an empty url
MalformedItems == {Null, [title |-> "T1"], [url |-> ""]}

ItemArgs == ValidItems \cup MalformedItems
UrlArgs == Urls \cup {""}

\* the guard `!item || !item.url` of add and playNow
Falsy(item) ==
  \/ item = Null
  \/ "url" \notin DOMAIN item
  \/ item.url = ""

\* the guard that reads item.url although item is null
GuardThrowsNoShortCircuit(item) == item = Null

\* whether the guard `!item || !item.url` throws a TypeError: item.url is
\* read only when !item is false, and reading a property of null throws
GuardThrows(item) ==
  LET left == (item = Null)
  IN IF left THEN FALSE ELSE item = Null

\* whether `i => i.url === url` throws on some entry of the queue
EntryThrows(q) == \E i \in 1..Len(q) : q[i] = Null

\* { ...old, ...new }: properties of new win, the others are kept
Spread(old, new) ==
  [k \in DOMAIN old \cup DOMAIN new |-> IF k \in DOMAIN new THEN new[k] ELSE old[k]]

\* this.queue.findIndex(i => i.url === url): first 0-based index or -1
FindIndex(q, url) ==
  IF \E i \in 1..Len(q) : q[i].url = url
  THEN (CHOOSE i \in 1..Len(q) :
          /\ q[i].url = url
          /\ \A j \in 1..(i - 1) : q[j].url # url) - 1
  ELSE -1

\* this.queue.filter((_, index) => index !== existingIndex), and splice(index, 1)
Without(q, index) ==
  [j \in 1..(Len(q) - 1) |-> IF j <= index THEN q[j] ELSE q[j + 1]]

Min(x, y) == IF x <= y THEN x ELSE y

\* variants of the index adjustment with a plausible slip each
AdjustIndexNoClamp(ci, index, newLen) ==
  IF ci > index THEN ci - 1 ELSE ci

AdjustIndexNoDecrement(ci, index, newLen) ==
  IF ci = index THEN (IF newLen # 0 THEN Min(index, newLen - 1) ELSE -1)
  ELSE ci

AdjustIndexToPrevious(ci, index, newLen) ==
  IF ci > index THEN ci - 1
  ELSE IF ci = index THEN (IF newLen # 0 THEN (IF index > 0 THEN index - 1 ELSE 0) ELSE -1)
  ELSE ci

AdjustIndexDeselect(ci, index, newLen) ==
  IF ci > index THEN ci - 1
  ELSE IF ci = index THEN -1
  ELSE ci

\* the index adjustment of remove, given the removed index and the new length
AdjustIndex(ci, index, newLen) ==
  IF ci > index THEN ci - 1
  ELSE IF ci = index THEN (IF newLen # 0 THEN Min(index, newLen - 1) ELSE -1)
  ELSE ci

\* no snapshot has been handed out
NoSnapshot == [none |-> TRUE]

\* getState(): a snapshot of the store
StateOf(q, ci) ==
  [queue |-> q,
   currentIndex |-> ci,
   currentItem |-> IF ci >= 0 /\ ci < Len(q) THEN q[ci + 1] ELSE Null]

getState == StateOf(queue, currentIndex)

----------------------------------------------------------------------------
(* The public methods as functions of the store: each yields the new queue *)
(* and index, and whether the method reached its call of notify().         *)

Result(q, ci, n) == [queue |-> q, currentIndex |-> ci, notify |-> n]

\* add without the duplicate check
addNoDupCheck(item) ==
  IF Falsy(item) THEN Result(queue, currentIndex, FALSE)
  ELSE Result(Append(queue, item), currentIndex, TRUE)

\* add that selects the first entry when nothing is selected
addAndSelect(item) ==
  IF Falsy(item) THEN Result(queue, currentIndex, FALSE)
  ELSE IF \E i \in 1..Len(queue) : queue[i].url = item.url
       THEN Result(queue, currentIndex, FALSE)
       ELSE Result(Append(queue, item), IF currentIndex = -1 THEN 0 ELSE currentIndex, TRUE)

add(item) ==
  IF Falsy(item) THEN Result(queue, currentIndex, FALSE)
  ELSE IF \E i \in 1..Len(queue) : queue[i].url = item.url
       THEN Result(queue, currentIndex, FALSE)
       ELSE Result(Append(queue, item), currentIndex, TRUE)

\* playNow that does not look for an existing entry
playNowNoFind(item) ==
  IF Falsy(item) THEN Result(queue, currentIndex, FALSE)
  ELSE Result(<<item>> \o queue, 0, TRUE)

\* playNow that replaces an existing entry instead of merging into it
playNowNoMerge(item) ==
  IF Falsy(item) THEN Result(queue, currentIndex, FALSE)
  ELSE LET existingIndex == FindIndex(queue, item.url) IN
       IF existingIndex # -1
       THEN Result(<<item>> \o Without(queue, existingIndex), 0, TRUE)
       ELSE Result(<<item>> \o queue, 0, TRUE)

playNow(item) ==
  IF Falsy(item) THEN Result(queue, currentIndex, FALSE)
  ELSE LET existingIndex == FindIndex(queue, item.url) IN
       IF existingIndex # -1
       THEN LET itemToPlay == Spread(queue[existingIndex + 1], item)
                remainingItems == Without(queue, existingIndex)
            IN Result(<<itemToPlay>> \o remainingItems, 0, TRUE)
       ELSE Result(<<item>> \o queue, 0, TRUE)

remove(url) ==
  LET index == FindIndex(queue, url) IN
  IF index = -1 THEN Result(queue, currentIndex, FALSE)
  ELSE LET spliced == Without(queue, index) IN
       Result(spliced, AdjustIndex(currentIndex, index, Len(spliced)), TRUE)

clear == Result(<<>>, -1, TRUE)

\* next that does not notify
nextSilent ==
  IF Len(queue) > 0 /\ currentIndex < Len(queue) - 1
  THEN Result(queue, currentIndex + 1, FALSE)
  ELSE Result(queue, currentIndex, FALSE)

\* next that advances only from a selected entry
nextFromSelection ==
  IF currentIndex >= 0 /\ currentIndex < Len(queue) - 1
  THEN Result(queue, currentIndex + 1, TRUE)
  ELSE Result(queue, currentIndex, FALSE)

next ==
  IF Len(queue) > 0 /\ currentIndex < Len(queue) - 1
  THEN Result(queue, currentIndex + 1, TRUE)
  ELSE Result(queue, currentIndex, FALSE)

\* previous that wraps around to the last entry
previousWrap ==
  IF currentIndex > 0
  THEN Result(queue, currentIndex - 1, TRUE)
  ELSE IF Len(queue) > 0 THEN Result(queue, Len(queue) - 1, TRUE)
  ELSE Result(queue, currentIndex, FALSE)

previous ==
  IF currentIndex > 0
  THEN Result(queue, currentIndex - 1, TRUE)
  ELSE Result(queue, currentIndex, FALSE)

\* notify(): the callbacks invoked by forEach over this.subscribers, a Set,
\* which iterates in insertion order
notify == subscribers

\* the callbacks of this.subscribers as a set
Registered == {subscribers[i] : i \in 1..Len(subscribers)}

\* useState(null) of modalVideoUrl; null is falsy, as is the empty string
NoUrl == ""

\* the page before any YoutubePlayer mounted: window.YT undefined,
\* youtubeApiPromise null, no script tag, window.onYouTubeIframeAPIReady unset
NoYoutubeApi ==
  [loaded |-> FALSE, promise |-> 0, handler |-> 0, resolved |-> {}, scripts |-> 0]

\* DEFAULT_SEARCH_CONFIG.debounceDelay, in milliseconds
debounceDelay == 300

NoError == "null"            \* state.error: null
NoQuery == "undefined"       \* _lastSuggestionQuery before the first request

\* the search store after its constructor, with nothing in localStorage
SearchManager ==
  [searchTerm |-> "", isLoading |-> FALSE, isInitialLoad |-> TRUE,
   results |-> <<>>, totalCount |-> 0, error |-> NoError,
   searchHistory |-> <<>>, suggestions |-> <<>>,
   searchTimeout |-> 0, suggestionsTimeout |-> 0,
   lastHistoryTerm |-> "", lastSuggestionQuery |-> NoQuery]

\* the catalogue before any song was created
EmptyTables ==
  [songs |-> {}, artists |-> {}, tags |-> {},
   song_artists |-> {}, song_tags |-> {}, song_links |-> {}]

NoCall == [pc |-> "idle"]

\* the module of the theme store has not been evaluated
NotLoaded == [status |-> "unloaded", currentTheme |-> "", subscribers |-> <<>>]

\* localStorage without an entry under either key: an entry is <<>> when
\* getItem yields null and <<text>> when it yields text
EmptyStorage == [theme |-> <<>>, history |-> <<>>]

----------------------------------------------------------------------------
(* The state machine: one action per public method, each taking the whole  *)
(* method including its trailing notify().                                 *)

Init ==
  /\ queue = <<>>
  /\ currentIndex = -1
  /\ subscribers = <<>>
  /\ lastCall = [op |-> "none"]
  /\ notified = <<>>
  /\ stack = <<>>
  /\ delivered = NoSnapshot
  /\ modalVideoUrl = NoUrl
  /\ queueState = NoSnapshot
  /\ ytApi = NoYoutubeApi
  /\ effects = {}
  /\ isPlaying = TRUE
  /\ playerRef = "null"
  /\ search = SearchManager
  /\ timers = {}
  /\ requests = <<>>
  /\ searchLog = [event |-> "constructed", idle |-> debounceDelay, calls |-> 0,
                  runs |-> 0, last |-> "", term |-> "", waited |-> 0, outcome |-> "",
                  latest |-> "", stale |-> FALSE, wrote |-> FALSE,
                  readded |-> FALSE]
  /\ db = EmptyTables
  /\ creating = NoCall
  /\ themeManager = NotLoaded
  /\ bodyTheme = ""
  /\ localStorage = EmptyStorage

\* playNow(item) directly after a playNow of the same url
SameUrlAgain(item) ==
  /\ lastCall.op = "playNow"
  /\ ~Falsy(item)
  /\ ~Falsy(lastCall.item)
  /\ lastCall.item.url = item.url

\* the effect of a method on the store, given its result
Apply(r) ==
  /\ Len(r.queue) <= MaxQueue
  /\ queue' = r.queue
  /\ currentIndex' = r.currentIndex
  /\ notified' = IF r.notify THEN notify ELSE <<>>
  /\ UNCHANGED <<subscribers, stack, delivered, otherVars>>

Add(item) ==
  /\ stack = <<>>
  /\ lastCall' = [op |-> "add", item |-> item, threw |-> GuardThrows(item)]
  /\ Apply(add(item))

PlayNow(item) ==
  /\ stack = <<>>
  /\ lastCall' = [op |-> "playNow", item |-> item, threw |-> GuardThrows(item),
                   again |-> SameUrlAgain(item)]
  /\ Apply(playNow(item))

Remove(url) ==
  /\ stack = <<>>
  /\ lastCall' = [op |-> "remove", url |-> url, threw |-> EntryThrows(queue)]
  /\ Apply(remove(url))

Clear ==
  /\ stack = <<>>
  /\ lastCall' = [op |-> "clear"]
  /\ Apply(clear)

NextTrack ==
  /\ stack = <<>>
  /\ lastCall' = [op |-> "next"]
  /\ Apply(next)

PreviousTrack ==
  /\ stack = <<>>
  /\ lastCall' = [op |-> "previous"]
  /\ Apply(previous)

Subscribe(s) ==
  /\ stack = <<>>
  /\ s \notin Registered
  /\ subscribers' = Append(subscribers, s)
  /\ lastCall' = [op |-> "subscribe", callback |-> s]
  /\ notified' = <<>>
  /\ UNCHANGED <<queue, currentIndex, stack, delivered, otherVars>>

\* the function returned by subscribe(callback)
Unsubscribe(s) ==
  /\ stack = <<>>
  /\ s \in Registered
  /\ subscribers' = SelectSeq(subscribers, LAMBDA c : c # s)
  /\ lastCall' = [op |-> "unsubscribe", callback |-> s]
  /\ notified' = <<>>
  /\ UNCHANGED <<queue, currentIndex, stack, delivered, otherVars>>

Next ==
  \/ \E item \in ItemArgs : Add(item)
  \/ \E item \in ItemArgs : PlayNow(item)
  \/ \E url \in UrlArgs : Remove(url)
  \/ Clear
  \/ NextTrack
  \/ PreviousTrack
  \/ \E s \in SubscriberIds : Subscribe(s)
  \/ \E s \in SubscriberIds : Unsubscribe(s)

Spec == Init /\ [][Next]_vars

----------------------------------------------------------------------------
(* Statement-level specification.  The same methods, executed one          *)
(* statement at a time on a call stack, with subscribers that may call a   *)
(* queue method from inside their callback.  Only the frame on top of the  *)
(* stack runs: the program is single-threaded.                             *)
(*                                                                         *)
(* A frame is one of                                                       *)
(*   [kind |-> "method", call, pc, index]   a method of the store          *)
(*   [kind |-> "notify", pos]               the forEach of notify()        *)
(*   [kind |-> "callback"]                  a subscriber's callback        *)
(* A method whose last statement is notify() has nothing left to do when   *)
(* notify() returns, so its frame is dropped when notify() starts.         *)

MaxDepth == 2      \* nesting of method calls (1 = no call from a callback)
StepNumUrls == 2   \* number of distinct urls used by the calls

StepUrls == {UrlPool[i] : i \in 1..StepNumUrls}

StepCalls ==
  {[op |-> "add", item |-> i] : i \in {[url |-> u] : u \in StepUrls} \cup {Null}}
    \cup {[op |-> "playNow", item |-> i] : i \in {[url |-> u] : u \in StepUrls}}
    \cup {[op |-> "remove", url |-> u] : u \in StepUrls}
    \cup {[op |-> "clear"], [op |-> "next"], [op |-> "previous"]}

\* the statements of each method with notify() moved before the index
\* adjustment of remove
BodyNotifyEarly(op) ==
  CASE op = "add"      -> <<"guard", "push", "notify">>
    [] op = "playNow"  -> <<"guard", "setQueue", "setIndex", "notify">>
    [] op = "remove"   -> <<"find", "splice", "notify", "adjust">>
    [] op = "clear"    -> <<"setQueue", "setIndex", "notify">>
    [] op = "next"     -> <<"guard", "setIndex", "notify">>
    [] op = "previous" -> <<"guard", "setIndex", "notify">>

\* the statements of each method, in source order
Body(op) ==
  CASE op = "add"      -> <<"guard", "push", "notify">>
    [] op = "playNow"  -> <<"guard", "setQueue", "setIndex", "notify">>
    [] op = "remove"   -> <<"find", "splice", "adjust", "notify">>
    [] op = "clear"    -> <<"setQueue", "setIndex", "notify">>
    [] op = "next"     -> <<"guard", "setIndex", "notify">>
    [] op = "previous" -> <<"guard", "setIndex", "notify">>

\* the method of a call as a function of the store
MethodOf(call) ==
  CASE call.op = "add"      -> add(call.item)
    [] call.op = "playNow"  -> playNow(call.item)
    [] call.op = "remove"   -> remove(call.url)
    [] call.op = "clear"    -> clear
    [] call.op = "next"     -> next
    [] call.op = "previous" -> previous

Top == stack[Len(stack)]
Pop == SubSeq(stack, 1, Len(stack) - 1)
ReplaceTop(f) == Append(Pop, f)

\* the callbacks that are running, innermost last
Callbacks == {k \in 1..Len(stack) : stack[k].kind = "callback"}

Running(kind) == stack # <<>> /\ Top.kind = kind

\* the statement the top method frame is about to execute
Statement ==
  IF Top.pc <= Len(Body(Top.call.op)) THEN Body(Top.call.op)[Top.pc] ELSE "return"

Advance == ReplaceTop([Top EXCEPT !.pc = @ + 1])

\* a method is called, by the user or from inside a subscriber's callback
Call(c) ==
  /\ stack = <<>> \/ Running("callback")
  /\ Cardinality(Callbacks) < MaxDepth
  /\ stack' = Append(stack, [kind |-> "method", call |-> c, pc |-> 1, index |-> -1])
  /\ UNCHANGED <<queue, currentIndex, subscribers, lastCall, notified, delivered, otherVars>>

\* the early returns of add, playNow, next and previous
Guard ==
  /\ Running("method") /\ Statement = "guard"
  /\ stack' = IF MethodOf(Top.call).notify THEN Advance ELSE Pop
  /\ UNCHANGED <<queue, currentIndex, subscribers, lastCall, notified, delivered, otherVars>>

\* const index = findIndex(...); if (index === -1) return;
Find ==
  /\ Running("method") /\ Statement = "find"
  /\ LET index == FindIndex(queue, Top.call.url) IN
     stack' = IF index = -1 THEN Pop
              ELSE ReplaceTop([Top EXCEPT !.pc = @ + 1, !.index = index])
  /\ UNCHANGED <<queue, currentIndex, subscribers, lastCall, notified, delivered, otherVars>>

\* this.queue.push(item)
Push ==
  /\ Running("method") /\ Statement = "push"
  /\ Len(queue) < MaxQueue
  /\ queue' = Append(queue, Top.call.item)
  /\ stack' = Advance
  /\ UNCHANGED <<currentIndex, subscribers, lastCall, notified, delivered, otherVars>>

\* this.queue.splice(index, 1)
Splice ==
  /\ Running("method") /\ Statement = "splice"
  /\ queue' = Without(queue, Top.index)
  /\ stack' = Advance
  /\ UNCHANGED <<currentIndex, subscribers, lastCall, notified, delivered, otherVars>>

\* the index adjustment after the splice
Adjust ==
  /\ Running("method") /\ Statement = "adjust"
  /\ currentIndex' = AdjustIndex(currentIndex, Top.index, Len(queue))
  /\ stack' = Advance
  /\ UNCHANGED <<queue, subscribers, lastCall, notified, delivered, otherVars>>

\* this.queue = ... of playNow and clear
SetQueue ==
  /\ Running("method") /\ Statement = "setQueue"
  /\ Len(MethodOf(Top.call).queue) <= MaxQueue
  /\ queue' = MethodOf(Top.call).queue
  /\ stack' = Advance
  /\ UNCHANGED <<currentIndex, subscribers, lastCall, notified, delivered, otherVars>>

\* the assignment to this.currentIndex of playNow, clear, next and previous
SetIndex ==
  /\ Running("method") /\ Statement = "setIndex"
  /\ currentIndex' =
       CASE Top.call.op = "playNow"  -> 0
         [] Top.call.op = "clear"    -> -1
         [] Top.call.op = "next"     -> currentIndex + 1
         [] Top.call.op = "previous" -> currentIndex - 1
  /\ stack' = Advance
  /\ UNCHANGED <<queue, subscribers, lastCall, notified, delivered, otherVars>>

\* this.notify(): start the forEach over the subscribers
Notify ==
  /\ Running("method") /\ Statement = "notify"
  /\ LET forEach == [kind |-> "notify", pos |-> 1] IN
     stack' = IF Top.pc = Len(Body(Top.call.op))
              THEN ReplaceTop(forEach)
              ELSE Append(Advance, forEach)
  /\ UNCHANGED <<queue, currentIndex, subscribers, lastCall, notified, delivered, otherVars>>

\* callback(this.getState()) for the next subscriber of the forEach
Deliver ==
  /\ Running("notify")
  /\ Top.pos <= Len(subscribers)
  /\ delivered' = [subscriber |-> subscribers[Top.pos], state |-> getState]
  /\ stack' = Append(ReplaceTop([Top EXCEPT !.pos = @ + 1]), [kind |-> "callback"])
  /\ UNCHANGED <<queue, currentIndex, subscribers, lastCall, notified, otherVars>>

\* a method or the forEach of notify() returns to its caller
Return ==
  /\ \/ Running("method") /\ Statement = "return"
     \/ Running("notify") /\ Top.pos > Len(subscribers)
  /\ stack' = Pop
  /\ UNCHANGED <<queue, currentIndex, subscribers, lastCall, notified, delivered, otherVars>>

\* a callback returns; its argument is gone
CallbackReturn ==
  /\ Running("callback")
  /\ stack' = Pop
  /\ delivered' = NoSnapshot
  /\ UNCHANGED <<queue, currentIndex, subscribers, lastCall, notified, otherVars>>

StepSubscribe(s) ==
  /\ stack = <<>>
  /\ s \notin Registered
  /\ subscribers' = Append(subscribers, s)
  /\ UNCHANGED <<queue, currentIndex, lastCall, notified, stack, delivered, otherVars>>

StepUnsubscribe(s) ==
  /\ stack = <<>>
  /\ s \in Registered
  /\ subscribers' = SelectSeq(subscribers, LAMBDA c : c # s)
  /\ UNCHANGED <<queue, currentIndex, lastCall, notified, stack, delivered, otherVars>>

StepNext ==
  \/ \E c \in StepCalls : Call(c)
  \/ Guard
  \/ Find
  \/ Push
  \/ Splice
  \/ Adjust
  \/ SetQueue
  \/ SetIndex
  \/ Notify
  \/ Deliver
  \/ Return
  \/ CallbackReturn
  \/ \E s \in SubscriberIds : StepSubscribe(s)
  \/ \E s \in SubscriberIds : StepUnsubscribe(s)

StepSpec == Init /\ [][StepNext]_vars

----------------------------------------------------------------------------
(* The player sidebar.  DisplaySongs holds modalVideoUrl and renders the    *)
(* sidebar (MediaPlayer) with it; the sidebar reads the queue through the   *)
(* useQueue hook, derives the active url and its platform, and mounts a     *)
(* YoutubePlayer for a YouTube url.  The effect of YoutubePlayer waits for  *)
(* the iframe API and then constructs a player.                             *)
(*                                                                          *)
(* The urls of the pool stand for                                           *)
(*   a  https://www.youtube.com/watch?v=AAAAAAAAAAA                         *)
(*   b  https://youtu.be/BBBBBBBBBBB                                        *)
(*   c  https://open.spotify.com/track/1                                    *)
(*   d  https://www.youtube.com/embed/AAAAAAAAAAA  (the video of a)         *)
(*   e  https://www.youtube.com/playlist?list=PL1  (no 11-character id)     *)
(*                                                                          *)
(* An event handler runs to completion together with the render and the     *)
(* effects it causes; the callbacks of promises and the events of the       *)
(* iframe API are steps of their own.  The callbacks of a resolved promise  *)
(* are microtasks: they run before the next event is handled.               *)

PlayerNumUrls == 3   \* number of distinct urls the song list offers
PlayerMaxQueue == 2  \* cap on the queue length explored with the sidebar

PlayerUrls == {UrlPool[i] : i \in 1..PlayerNumUrls}

\* the values of YT.PlayerState: unstarted, ended, playing, paused,
\* buffering, cued
PlayerStates == {-1, 0, 1, 2, 3, 5}
ENDED == 0

NoId == "none"   \* getYoutubeId: null

\* the callback the sidebar's useQueue hook subscribes: setQueueState
SidebarCallback == 1

isYouTubeUrl(url) == url \in {UrlPool[1], UrlPool[2], UrlPool[4], UrlPool[5]}

isSpotifyUrl(url) == url = UrlPool[3]

\* the 11-character video id of a YouTube link, or null
getYoutubeId(link) ==
  IF link = NoUrl THEN NoId
  ELSE IF link \in {UrlPool[1], UrlPool[4]} THEN "AAAAAAAAAAA"
  ELSE IF link = UrlPool[2] THEN "BBBBBBBBBBB"
  ELSE NoId

\* currentItem?.url || videoUrl
activeUrl(qs, videoUrl) ==
  IF qs.currentItem # Null THEN qs.currentItem.url ELSE videoUrl

platform(url) ==
  IF isYouTubeUrl(url) THEN "youtube"
  ELSE IF isSpotifyUrl(url) THEN "spotify"
  ELSE "unknown"

\* the sidebar renders something: not (!videoUrl && !currentItem)
Rendered(qs, videoUrl) == videoUrl # NoUrl \/ qs.currentItem # Null

\* the video id the effect of YoutubePlayer runs for, NoId when no
\* YoutubePlayer is mounted or its effect returns at once
EffectKey(qs, videoUrl) ==
  IF Rendered(qs, videoUrl) /\ platform(activeUrl(qs, videoUrl)) = "youtube"
  THEN getYoutubeId(activeUrl(qs, videoUrl))
  ELSE NoId

\* disabled={currentIndex <= 0} of the Previous buttons
PreviousDisabledAtZeroOnly(qs) == qs.currentIndex = 0

PreviousDisabled(qs) == qs.currentIndex <= 0

\* disabled={currentIndex >= queue.length - 1} of the Next buttons
NextDisabled(qs) == qs.currentIndex >= Len(qs.queue) - 1

(* ensureYoutubeApi.  A promise is named by a positive number, 0 names the  *)
(* already-resolved promise of Promise.resolve().  The result is the page   *)
(* after the call and the promise handed to the caller.                     *)
NewPromise(api) ==
  LET p == api.scripts + 1
  IN [api |-> [api EXCEPT !.promise = p, !.handler = p, !.scripts = @ + 1],
      awaits |-> p]

ensureYoutubeApiNoMemo(api) ==
  IF api.loaded THEN [api |-> api, awaits |-> 0] ELSE NewPromise(api)

ensureYoutubeApi(api) ==
  IF api.loaded THEN [api |-> api, awaits |-> 0]
  ELSE IF api.promise = 0 THEN NewPromise(api)
  ELSE [api |-> api, awaits |-> api.promise]

(* An effect instance is [videoId, awaits, cancelled, player]; player is    *)
(* "none" before the callback of .then ran, "live" for a constructed        *)
(* player that plays, "paused" for one that was paused by a command, and    *)
(* "broken" for a constructed player whose destroy() will throw.            *)
(* An instance that can no longer act is dropped: a cancelled one whose     *)
(* callback ran, and one whose player was destroyed.  The instances are     *)
(* kept as a set: two cancelled instances that wait on the same promise     *)
(* for the same video do the same, and count as one.                        *)
VideoIds == {getYoutubeId(url) : url \in {u \in PlayerUrls : getYoutubeId(u) # NoId}}

EffectInstances ==
  [videoId : VideoIds, awaits : {0, 1}, cancelled : BOOLEAN,
   player : {"none", "live", "paused", "broken"}]

Unconstructed == {e \in EffectInstances : e.player = "none"}
LiveInstances == {e \in EffectInstances : e.player \in {"live", "paused"}}

\* the instances that were not cleaned up: at most one
Current(effs) == {e \in effs : ~e.cancelled}

CurrentKey(effs) ==
  IF Current(effs) = {} THEN NoId ELSE (CHOOSE e \in Current(effs) : TRUE).videoId

\* the cleanup without the call of destroy()
CleanupNoDestroy(effs) == {[e EXCEPT !.cancelled = TRUE] : e \in effs}

\* the cleanup of the current effect: cancelled = true, then destroy()
\* inside try/catch when a player was constructed
Cleanup(effs) ==
  (effs \ Current(effs))
    \cup {[e EXCEPT !.cancelled = TRUE] : e \in {c \in Current(effs) : c.player = "none"}}

\* whether the cleanup lets an error of destroy() escape: the call stands
\* inside try { } catch { }
CleanupThrows(effs) ==
  LET thrown == \E e \in Current(effs) : e.player = "broken"
      caught == thrown
  IN thrown /\ ~caught

\* the callback of .then without the test of cancelled
thenCallbackNoCancel(e) == [e EXCEPT !.player = "live"]

\* the callback of .then: if (cancelled) return; player = new YT.Player(...)
thenCallback(e) == IF e.cancelled THEN e ELSE [e EXCEPT !.player = "live"]

\* the queue calls made by onStateChange, without the test of e.data
onStateChangeAnyState(data) == <<"next">>

\* onStateChange: if (e.data === ENDED && typeof onEnded === 'function')
\* onEnded(), and handleYoutubeEnded calls next()
onStateChange(data) == IF data = ENDED THEN <<"next">> ELSE <<>>

\* render and effects after an event handler: the effect of YoutubePlayer
\* is cleaned up and run again when its video id changed
\* playerRef.current after the iframe it holds left the document: the
\* element stays in the ref, without a contentWindow
Detach(ref) == IF ref = "current" THEN "detached" ELSE ref

Commit ==
  LET newKey == EffectKey(queueState', modalVideoUrl')
      cleaned == Cleanup(effects)
      e == ensureYoutubeApi(ytApi)
  IN IF newKey = CurrentKey(effects) THEN UNCHANGED <<ytApi, effects, playerRef>>
     ELSE /\ playerRef' = Detach(playerRef)
          /\ IF newKey = NoId THEN effects' = cleaned /\ UNCHANGED ytApi
             ELSE /\ ytApi' = e.api
                  /\ effects' = cleaned \cup {[videoId |-> newKey, awaits |-> e.awaits,
                                                cancelled |-> FALSE, player |-> "none"]}

Mounted == SidebarCallback \in Registered /\ stack = <<>>

\* the effect instances whose promise is resolved and whose callback has
\* not run yet
Runnable ==
  {e \in effects : e.player = "none" /\ (e.awaits = 0 \/ e.awaits \in ytApi.resolved)}

\* no promise callback is waiting to run: the next event can be handled
Settled == Mounted /\ Runnable = {}

\* a queue method called from the user interface, with the new
\* modalVideoUrl, followed by the render
PlayerApply(r, videoUrl, call) ==
  /\ Len(r.queue) <= PlayerMaxQueue
  /\ queue' = r.queue
  /\ currentIndex' = r.currentIndex
  /\ notified' = IF r.notify THEN notify ELSE <<>>
  /\ queueState' = IF r.notify THEN StateOf(r.queue, r.currentIndex) ELSE queueState
  /\ modalVideoUrl' = videoUrl
  /\ Commit
  /\ lastCall' = Spread(call, [threw |-> EffectKey(queueState', modalVideoUrl') # CurrentKey(effects)
                                          /\ CleanupThrows(effects)])
  /\ UNCHANGED <<subscribers, stack, delivered, isPlaying, searchVars, catalogVars, themeVars>>

\* App mounts: useQueue takes the first snapshot and subscribes setQueueState
MountApp ==
  /\ subscribers = <<>>
  /\ stack = <<>>
  /\ subscribers' = <<SidebarCallback>>
  /\ queueState' = getState
  /\ lastCall' = [op |-> "mount"]
  /\ UNCHANGED <<queue, currentIndex, notified, stack, delivered, modalVideoUrl,
                 ytApi, effects, isPlaying, playerRef, searchVars, catalogVars, themeVars>>

\* DisplaySongs.handlePlayNow / handleVideoClick
ClickPlayNow(url) ==
  /\ Settled
  /\ isYouTubeUrl(url) \/ isSpotifyUrl(url)
  /\ PlayerApply(playNow([url |-> url]), url, [op |-> "playNow"])

\* DisplaySongs.handleAddToQueue
ClickAddToQueue(url) ==
  /\ Settled
  /\ isYouTubeUrl(url) \/ isSpotifyUrl(url)
  /\ PlayerApply(add([url |-> url]), modalVideoUrl, [op |-> "add"])

\* a row of the sidebar's queue list: playNow(item)
ClickQueueRow(i) ==
  /\ Settled
  /\ Rendered(queueState, modalVideoUrl)
  /\ i \in 1..Len(queueState.queue)
  /\ PlayerApply(playNow(queueState.queue[i]), modalVideoUrl,
                 [op |-> "playNow"])

\* the remove button of a row: remove(item.url)
ClickRemove(i) ==
  /\ Settled
  /\ Rendered(queueState, modalVideoUrl)
  /\ i \in 1..Len(queueState.queue)
  /\ PlayerApply(remove(queueState.queue[i].url), modalVideoUrl,
                 [op |-> "remove"])

\* the Next button, which a disabled button does not deliver
ClickNext ==
  /\ Settled
  /\ Rendered(queueState, modalVideoUrl)
  /\ ~NextDisabled(queueState)
  /\ PlayerApply(next, modalVideoUrl, [op |-> "next"])

ClickPrevious ==
  /\ Settled
  /\ Rendered(queueState, modalVideoUrl)
  /\ ~PreviousDisabled(queueState)
  /\ PlayerApply(previous, modalVideoUrl, [op |-> "previous"])

\* the Clear button: disabled={queue.length === 0}
ClickClear ==
  /\ Settled
  /\ Rendered(queueState, modalVideoUrl)
  /\ Len(queueState.queue) # 0
  /\ PlayerApply(clear, modalVideoUrl, [op |-> "clear"])

\* handleClose -> onClose -> closeModal: setModalVideoUrl(null)
ClickClose ==
  /\ Settled
  /\ Rendered(queueState, modalVideoUrl)
  /\ PlayerApply(Result(queue, currentIndex, FALSE), NoUrl, [op |-> "close"])

\* the script loaded: window.YT is set and onYouTubeIframeAPIReady runs,
\* which resolves the promise whose executor assigned it last
ApiReady ==
  /\ Settled
  /\ ~ytApi.loaded
  /\ ytApi.scripts > 0
  /\ ytApi' = [ytApi EXCEPT !.loaded = TRUE, !.resolved = @ \cup {ytApi.handler}]
  /\ lastCall' = [op |-> "apiReady"]
  /\ UNCHANGED <<queue, currentIndex, subscribers, notified, stack, delivered,
                 modalVideoUrl, queueState, effects, isPlaying, playerRef,
                 searchVars, catalogVars, themeVars>>

\* the callback of ensureYoutubeApi().then of one effect instance
ThenCallback(e) ==
  /\ Mounted
  /\ e \in Runnable
  /\ effects' = (effects \ {e}) \cup {c \in {thenCallback(e)} : c.player # "none"}
  /\ lastCall' = [op |-> "then", cancelled |-> e.cancelled]
  /\ UNCHANGED <<queue, currentIndex, subscribers, notified, stack, delivered,
                 modalVideoUrl, queueState, ytApi, isPlaying, playerRef,
                 searchVars, catalogVars, themeVars>>

\* the iframe of a constructed player goes away under it, after which
\* destroy() throws
PlayerBreaks(e) ==
  /\ Settled
  /\ e \in effects
  /\ e.player \in {"live", "paused"}
  /\ effects' = (effects \ {e}) \cup {[e EXCEPT !.player = "broken"]}
  /\ playerRef' = Detach(playerRef)
  /\ lastCall' = [op |-> "breaks"]
  /\ UNCHANGED <<queue, currentIndex, subscribers, notified, stack, delivered,
                 modalVideoUrl, queueState, ytApi, isPlaying, searchVars, catalogVars,
                 themeVars>>

\* a constructed player reports a state: events.onStateChange
PlayerStateChange(e, data) ==
  /\ Settled
  /\ e \in effects
  /\ e.player \in {"live", "paused"}
  /\ PlayerApply(IF onStateChange(data) = <<"next">> THEN next
                 ELSE Result(queue, currentIndex, FALSE),
                 modalVideoUrl,
                 [op |-> "stateChange", data |-> data, calls |-> onStateChange(data)])

PlayerNext ==
  \/ MountApp
  \/ \E url \in PlayerUrls : ClickPlayNow(url)
  \/ \E url \in PlayerUrls : ClickAddToQueue(url)
  \/ \E i \in 1..PlayerMaxQueue : ClickQueueRow(i)
  \/ \E i \in 1..PlayerMaxQueue : ClickRemove(i)
  \/ ClickNext
  \/ ClickPrevious
  \/ ClickClear
  \/ ClickClose
  \/ ApiReady
  \/ \E e \in Unconstructed : ThenCallback(e)
  \/ \E e \in LiveInstances : PlayerBreaks(e)
  \/ \E e \in LiveInstances, data \in PlayerStates : PlayerStateChange(e, data)

PlayerSpec == Init /\ [][PlayerNext]_vars

----------------------------------------------------------------------------
(* The play/pause button of the sidebar.  onReady of a constructed player   *)
(* stores its iframe in playerRef; the button posts a command to that       *)
(* iframe.  A constructed player plays (autoplay: 1) until a command pauses *)
(* it.  The two steps touch isPlaying, playerRef and the player only, and   *)
(* are explored on top of the steps of the sidebar.                         *)

\* the player after a command was posted to its iframe
postMessage(e, command) ==
  IF e.player \notin {"live", "paused"} THEN e
  ELSE [e EXCEPT !.player = IF command = "pauseVideo" THEN "paused" ELSE "live"]

\* events.onReady: playerRef.current = e.target.getIframe()
PlayerReady(e) ==
  /\ Settled
  /\ e \in effects
  /\ e.player = "live"
  /\ playerRef # "current"
  /\ playerRef' = "current"
  /\ lastCall' = [op |-> "ready"]
  /\ UNCHANGED <<queue, currentIndex, subscribers, notified, stack, delivered,
                 modalVideoUrl, queueState, ytApi, effects, isPlaying,
                 searchVars, catalogVars, themeVars>>

\* handlePlayPause, behind a button that is disabled off YouTube
ClickPlayPause ==
  /\ Settled
  /\ Rendered(queueState, modalVideoUrl)
  /\ platform(activeUrl(queueState, modalVideoUrl)) = "youtube"
  /\ LET sends == playerRef = "current"
         command == IF isPlaying THEN "pauseVideo" ELSE "playVideo"
     IN /\ effects' = IF sends THEN {postMessage(e, command) : e \in effects} ELSE effects
        /\ isPlaying' = IF sends THEN ~isPlaying ELSE isPlaying
        /\ lastCall' = [op |-> "playPause",
                        command |-> IF sends THEN command ELSE "none",
                        playing |-> \E e \in effects : e.player = "live"]
  /\ UNCHANGED <<queue, currentIndex, subscribers, notified, stack, delivered,
                 modalVideoUrl, queueState, ytApi, playerRef,
                 searchVars, catalogVars, themeVars>>

PlaybackNext ==
  \/ PlayerNext
  \/ \E e \in LiveInstances : PlayerReady(e)
  \/ ClickPlayPause

PlaybackSpec == Init /\ [][PlaybackNext]_vars

----------------------------------------------------------------------------
(* The search store (class SearchManager).  Time is counted in              *)
(* milliseconds and advances in ticks; a timer fires at the instant its     *)
(* delay has elapsed, before a later call is handled.  A query is in flight *)
(* from the start of executeSearch to the step that resumes it with the     *)
(* response.  The writes of the history to localStorage succeed here; a     *)
(* write that throws is taken up with the search history below.             *)

NumTerms == 2        \* number of distinct search terms typed
TicksPerDelay == 3   \* instants told apart within one debounce delay
MaxBurst == 3        \* cap on the calls of one burst
MaxInFlight == 2     \* cap on the queries in flight

\* addToSearchHistory: slice(0, 10)
HistoryLimit == 10

TermPool == <<"a", "ab", "ab ", "abc">>
SearchTerms == {TermPool[i] : i \in 1..NumTerms}

\* String.prototype.trim on the terms and names of the pools
trim(term) ==
  IF term = "ab " THEN "ab"
  ELSE IF term = " " THEN ""
  ELSE term

\* the titles of songs_view, newest first
Catalogue == <<"abc", "ab", "a">>

\* title ILIKE %term%
ilike(title, term) ==
  \/ term \in {"", "a"}
  \/ term = "ab" /\ title \in {"ab", "abc"}
  \/ term = "abc" /\ title = "abc"

\* the rows a query for term returns
Matches(term) == SelectSeq(Catalogue, LAMBDA title : ilike(title, term))

\* buildQuery: the text filter of the query, from the term as it is now
buildQuery(s) == trim(s.searchTerm)

\* what the other components hold
queueVars == <<queue, currentIndex, subscribers, lastCall, notified, stack, delivered>>

\* the handle setTimeout returns: a number no pending timer and no kept
\* handle has
NewTimerId(ts, kept) ==
  CHOOSE n \in 1..(Cardinality(ts) + Cardinality(kept) + 1) :
    /\ n \notin kept
    /\ \A t \in ts : t.id # n
    /\ \A m \in 1..(n - 1) : m \in kept \/ \E t \in ts : t.id = m

clearTimeout(ts, id) == {t \in ts : t.id # id}

Handles(s) == {s.searchTimeout, s.suggestionsTimeout} \ {0}

\* debouncedSearch without the clearTimeout
debouncedSearchNoClear(ts, s) ==
  LET id == NewTimerId(ts, Handles(s))
  IN [timers |-> ts \cup {[id |-> id, kind |-> "search", remaining |-> debounceDelay]},
      handle |-> id]

\* debouncedSearch: the timers and this.searchTimeout after the call
debouncedSearch(ts, s) ==
  LET cleared == IF s.searchTimeout # 0 THEN clearTimeout(ts, s.searchTimeout) ELSE ts
      id == NewTimerId(cleared, Handles(s))
  IN [timers |-> cleared \cup {[id |-> id, kind |-> "search", remaining |-> debounceDelay]},
      handle |-> id]

\* addToSearchHistory without the filter that removes the term
addToSearchHistoryNoFilter(history, term) ==
  LET trimmed == trim(term)
      moved == <<trimmed>> \o history
  IN IF trimmed = "" THEN history
     ELSE SubSeq(moved, 1, Min(HistoryLimit, Len(moved)))

addToSearchHistory(history, term) ==
  LET trimmed == trim(term)
      moved == <<trimmed>> \o SelectSeq(history, LAMBDA item : item # trimmed)
  IN IF trimmed = "" THEN history
     ELSE SubSeq(moved, 1, Min(HistoryLimit, Len(moved)))

\* JSON.stringify of a history: a text JSON.parse yields the history from
stringify(history) == [parses |-> TRUE, value |-> history]

\* the try block of addToSearchHistory: localStorage after setItem, which
\* may throw
saveSearchHistory(ls, history, writable) ==
  IF writable THEN [ls EXCEPT !.history = <<stringify(history)>>] ELSE ls

\* executeSearch up to its await
startSearch(s, isInitialLoad) ==
  [s EXCEPT !.isInitialLoad = isInitialLoad, !.isLoading = TRUE, !.error = NoError]

\* executeSearch after its await: the response is data, { error } or an
\* exception
resumeSearch(s, request, outcome) ==
  LET term == trim(s.searchTerm)
      ok == [s EXCEPT !.results = Matches(request.term),
                      !.totalCount = Len(Matches(request.term)),
                      !.error = NoError]
      saved == IF term # "" /\ term # s.lastHistoryTerm
               THEN [ok EXCEPT !.searchHistory = addToSearchHistory(s.searchHistory, term),
                               !.lastHistoryTerm = term]
               ELSE ok
      after == CASE outcome = "ok" -> saved
                 [] outcome = "error" ->
                      [s EXCEPT !.error = "Failed to search songs. Please try again.",
                                !.results = <<>>]
                 [] outcome = "throw" ->
                      [s EXCEPT !.error = "An unexpected error occurred during search.",
                                !.results = <<>>]
  IN [after EXCEPT !.isLoading = FALSE, !.isInitialLoad = FALSE]

Outcomes == {"ok", "error", "throw"}

\* the queries in flight after the response of query k arrived: a query
\* that was started before k and is still in flight has been overtaken
Overtake(reqs, k) ==
  [j \in 1..(Len(reqs) - 1) |->
     IF j >= k THEN reqs[j + 1] ELSE [reqs[j] EXCEPT !.overtaken = TRUE]]

Due == {t \in timers : t.remaining = 0}

TickMs == debounceDelay \div TicksPerDelay

\* the record of a step: what happened, with the term queried, the time
\* since the last setSearchTerm and the kind of response where they apply
Log(event, term, waited, outcome) ==
  [searchLog EXCEPT !.event = event, !.term = term, !.waited = waited,
                    !.outcome = outcome, !.stale = FALSE, !.wrote = FALSE]

\* initialize(): the first search, started when the application mounts
Initialize ==
  /\ searchLog.event = "constructed"
  /\ search' = startSearch(search, TRUE)
  /\ requests' = Append(requests, [term |-> buildQuery(search), overtaken |-> FALSE])
  /\ searchLog' = Log("initialize", buildQuery(search), 0, "")
  /\ UNCHANGED <<timers, queueVars, playerVars, catalogVars, themeVars>>

SetSearchTerm(term) ==
  /\ searchLog.event # "constructed"
  /\ Due = {}
  /\ searchLog.idle >= debounceDelay \/ searchLog.calls < MaxBurst
  /\ search' = [search EXCEPT !.searchTerm = term,
                              !.searchTimeout = debouncedSearch(timers, search).handle]
  /\ timers' = debouncedSearch(timers, search).timers
  /\ searchLog' = [Log("setSearchTerm", "", 0, "") EXCEPT
                     !.idle = 0,
                     !.last = term,
                     !.calls = IF searchLog.idle >= debounceDelay THEN 1 ELSE @ + 1,
                     !.runs = IF searchLog.idle >= debounceDelay THEN 0 ELSE @]
  /\ UNCHANGED <<requests, queueVars, playerVars, catalogVars, themeVars>>

\* the callback of the debounce timer: executeSearch()
SearchTimerFires(id) ==
  /\ \E t \in Due : t.id = id /\ t.kind = "search" /\ timers' = timers \ {t}
  /\ Len(requests) < MaxInFlight
  /\ search' = startSearch(search, FALSE)
  /\ requests' = Append(requests, [term |-> buildQuery(search), overtaken |-> FALSE])
  /\ searchLog' = [Log("execute", buildQuery(search), searchLog.idle, "") EXCEPT
                     !.runs = @ + 1]
  /\ UNCHANGED <<queueVars, playerVars, catalogVars, themeVars>>

\* the response of a query arrives and executeSearch resumes
QueryCompletes(k, outcome, writable) ==
  /\ k <= Len(requests)
  /\ search' = resumeSearch(search, requests[k], outcome)
  /\ requests' = Overtake(requests, k)
  /\ localStorage' = IF search'.lastHistoryTerm # search.lastHistoryTerm
                     THEN saveSearchHistory(localStorage, search'.searchHistory, writable)
                     ELSE localStorage
  /\ searchLog' = [Log("completed", requests[k].term, 0, outcome) EXCEPT
                     !.stale = requests[k].overtaken]
  /\ UNCHANGED <<timers, queueVars, playerVars, catalogVars, themeManager, bodyTheme>>

\* time passes, up to the next instant a timer is due
Tick ==
  /\ Due = {}
  /\ timers # {} \/ searchLog.idle < debounceDelay
  /\ LET d == IF \E t \in timers : t.remaining < TickMs
              THEN (CHOOSE t \in timers : \A u \in timers : t.remaining <= u.remaining).remaining
              ELSE TickMs
     IN /\ timers' = {[t EXCEPT !.remaining = @ - d] : t \in timers}
        /\ searchLog' = [Log("tick", "", 0, "") EXCEPT
                           !.idle = Min(debounceDelay, @ + d)]
  /\ UNCHANGED <<search, requests, queueVars, playerVars, catalogVars, themeVars>>

SearchNext ==
  \/ Initialize
  \/ \E term \in SearchTerms : SetSearchTerm(term)
  \/ \E id \in 1..(MaxBurst + 1) : SearchTimerFires(id)
  \/ \E k \in 1..MaxInFlight, outcome \in Outcomes : QueryCompletes(k, outcome, TRUE)
  \/ Tick

SearchSpec == Init /\ [][SearchNext]_vars

----------------------------------------------------------------------------
(* Suggestions of the search store (getSuggestions).  The delay of the      *)
(* suggestion timer is not counted here: a pending timer fires at some      *)
(* later time unless it is cleared first.  A fetch is in flight from the    *)
(* timer's callback to the step that resumes it with both responses.        *)

NumInputs == 3       \* number of distinct inputs typed into the search box

\* this.suggestionsDebounceDelay, in milliseconds
suggestionsDebounceDelay == 250

\* slice(0, 5) of the tags and of the artists
SuggestionLimit == 5

InputPool == <<"ro", "rock", "r", "RO">>
SuggestInputs == {InputPool[i] : i \in 1..NumInputs}

\* !input || input.length < 2
TooShort(input) == input \in {"", "r"}

toLowerCase(input) == IF input = "RO" THEN "ro" ELSE input

\* the names of the tags and of the artists in the sample
TagNames == <<"rock", "retro">>
ArtistNames == <<"Roxette">>

\* name.toLowerCase().includes(queryKey)
includes(name, queryKey) ==
  \/ queryKey = "ro" /\ name \in {"rock", "retro", "Roxette"}
  \/ queryKey = "rock" /\ name = "rock"

Take(seq, n) == SubSeq(seq, 1, Min(n, Len(seq)))

Typed(type, names) == [i \in 1..Len(names) |-> [type |-> type, value |-> names[i]]]

\* the suggestions derived from the sample for queryKey; data is null
\* when the request failed
suggestionsFor(queryKey, outcome) ==
  IF outcome = "error" THEN <<>>
  ELSE Typed("tag", Take(SelectSeq(TagNames, LAMBDA n : includes(n, queryKey)),
                         SuggestionLimit))
       \o Typed("artist", Take(SelectSeq(ArtistNames, LAMBDA n : includes(n, queryKey)),
                               SuggestionLimit))

\* getSuggestions up to its setTimeout: the store and the timers after it
getSuggestions(s, ts, input) ==
  LET cleared == IF s.suggestionsTimeout # 0 THEN clearTimeout(ts, s.suggestionsTimeout)
                 ELSE ts
      id == NewTimerId(cleared, {s.searchTimeout} \ {0})
      queryKey == toLowerCase(input)
  IN IF TooShort(input)
     THEN [search |-> [s EXCEPT !.suggestionsTimeout = 0, !.suggestions = <<>>],
           timers |-> cleared]
     ELSE [search |-> [s EXCEPT !.suggestionsTimeout = id,
                                !.lastSuggestionQuery = queryKey],
           timers |-> cleared \cup {[id |-> id, kind |-> "suggest",
                                     remaining |-> suggestionsDebounceDelay,
                                     queryKey |-> queryKey, input |-> input]}]

\* the callback of the timer after its await, without the comparison of
\* _lastSuggestionQuery
resumeSuggestionsNoCheck(s, request, outcome) ==
  IF outcome = "throw" THEN [search |-> s, wrote |-> FALSE]
  ELSE [search |-> [s EXCEPT !.suggestions = suggestionsFor(request.queryKey, outcome)],
        wrote |-> TRUE]

\* the callback of the timer after its await: the store after it, and
\* whether it assigned state.suggestions
resumeSuggestions(s, request, outcome) ==
  IF outcome = "throw" \/ s.lastSuggestionQuery # request.queryKey
  THEN [search |-> s, wrote |-> FALSE]
  ELSE [search |-> [s EXCEPT !.suggestions = suggestionsFor(request.queryKey, outcome)],
        wrote |-> TRUE]

\* a request is stale once getSuggestions was called with another input of
\* at least 2 characters while it was in flight
Supersede(rs, input) ==
  [k \in 1..Len(rs) |-> IF rs[k].input # input THEN [rs[k] EXCEPT !.stale = TRUE]
                        ELSE rs[k]]

GetSuggestions(input) ==
  /\ search' = getSuggestions(search, timers, input).search
  /\ timers' = getSuggestions(search, timers, input).timers
  /\ requests' = IF TooShort(input) THEN requests ELSE Supersede(requests, input)
  /\ searchLog' = [Log("getSuggestions", input, 0, "") EXCEPT
                     !.last = input,
                     !.latest = IF TooShort(input) THEN @ ELSE input]
  /\ UNCHANGED <<queueVars, playerVars, catalogVars, themeVars>>

\* the callback of the suggestion timer starts the two fetches
SuggestionTimerFires(id) ==
  /\ Len(requests) < MaxInFlight
  /\ \E t \in timers :
       /\ t.id = id /\ t.kind = "suggest"
       /\ timers' = timers \ {t}
       /\ requests' = Append(requests, [queryKey |-> t.queryKey, input |-> t.input,
                                        stale |-> FALSE])
       /\ searchLog' = Log("fetch", t.input, 0, "")
  /\ UNCHANGED <<search, queueVars, playerVars, catalogVars, themeVars>>

\* both responses of a fetch arrived and the callback resumes
FetchCompletes(k, outcome) ==
  /\ k <= Len(requests)
  /\ search' = resumeSuggestions(search, requests[k], outcome).search
  /\ requests' = SubSeq(requests, 1, k - 1) \o SubSeq(requests, k + 1, Len(requests))
  /\ searchLog' = [Log("fetched", requests[k].input, 0, outcome) EXCEPT
                     !.stale = requests[k].stale,
                     !.wrote = resumeSuggestions(search, requests[k], outcome).wrote]
  /\ UNCHANGED <<timers, queueVars, playerVars, catalogVars, themeVars>>

SuggestNext ==
  \/ \E input \in SuggestInputs : GetSuggestions(input)
  \/ \E id \in 1..2 : SuggestionTimerFires(id)
  \/ \E k \in 1..MaxInFlight, outcome \in Outcomes : FetchCompletes(k, outcome)

SuggestSpec == Init /\ [][SuggestNext]_vars

----------------------------------------------------------------------------
(* The catalogue service (SupabaseCrud.createSong), one request to the      *)
(* database per step.  Every request either succeeds or fails; a failed     *)
(* insert changes no table.  An artist or a tag is identified by its name,  *)
(* a song by the id the insert returned.                                    *)

NumNames == 1        \* number of distinct artist and tag names offered
MaxSongs == 2        \* cap on the song rows created

NamePool == <<"A", " ", "B">>
Names == {NamePool[i] : i \in 1..NumNames}
NameLists == {<<>>} \cup {<<n>> : n \in Names}

\* a link with url and platformId, and one that validLinks filters out
LinkLists == {<<>>, <<[url |-> "u", platformId |-> 1]>>, <<[url |-> "", platformId |-> 1]>>}

SongData == [artists : NameLists, tags : NameLists, links : LinkLists]

\* the position of the first name from position i on that is not blank,
\* or one past the end: if (!trimmedName) continue
NextName(names, i) ==
  LET rest == {j \in i..Len(names) : trim(names[j]) # ""}
  IN IF rest = {} THEN Len(names) + 1
     ELSE CHOOSE j \in rest : \A k \in rest : j <= k

\* links.filter(link => link.url && link.platformId)
validLinks(links) == SelectSeq(links, LAMBDA link : link.url # "" /\ link.platformId # 0)

\* the next request of createSong, from each place where one is decided
ToLinks(c) ==
  IF Len(c.data.links) > 0 /\ Len(validLinks(c.data.links)) > 0
  THEN [c EXCEPT !.pc = "createSongLinks"]
  ELSE [c EXCEPT !.pc = "return"]

TagLoop(c, i) ==
  IF i <= Len(c.data.tags) THEN [c EXCEPT !.pc = "findTag", !.i = i]
  ELSE IF c.ids # {} THEN [c EXCEPT !.pc = "linkSongTags"]
  ELSE ToLinks(c)

ToTags(c) ==
  IF Len(c.data.tags) > 0 THEN TagLoop([c EXCEPT !.ids = {}], NextName(c.data.tags, 1))
  ELSE ToLinks(c)

ArtistLoop(c, i) ==
  IF i <= Len(c.data.artists) THEN [c EXCEPT !.pc = "findArtist", !.i = i]
  ELSE IF c.ids # {} THEN [c EXCEPT !.pc = "linkSongArtists"]
  ELSE ToTags(c)

ToArtists(c) ==
  IF Len(c.data.artists) > 0 THEN ArtistLoop(c, NextName(c.data.artists, 1))
  ELSE ToTags(c)

\* throw inside try: the catch block returns { data: null, error }
Throw(c) == [c EXCEPT !.pc = "return", !.error = TRUE]

At(pc) == creating.pc = pc

CatalogUnchanged == UNCHANGED <<queueVars, playerVars, searchVars, themeVars>>

\* createSong(songData) is called
CreateSong(data) ==
  /\ creating.pc \in {"idle", "returned"}
  /\ Cardinality(db.songs) < MaxSongs
  /\ creating' = [pc |-> "insertSong", data |-> data, songId |-> 0, i |-> 0,
                  ids |-> {}, error |-> FALSE]
  /\ UNCHANGED db
  /\ CatalogUnchanged

\* 1. insert into songs
InsertSong(ok) ==
  /\ At("insertSong")
  /\ LET id == Cardinality(db.songs) + 1
     IN IF ok
        THEN /\ db' = [db EXCEPT !.songs = @ \cup {id}]
             /\ creating' = ToArtists([creating EXCEPT !.songId = id])
        ELSE /\ creating' = Throw(creating)
             /\ UNCHANGED db
  /\ CatalogUnchanged

\* _handleArtists: select the artist by name; a failed request yields no
\* row, as a missing artist does
FindArtist(ok) ==
  /\ At("findArtist")
  /\ LET name == trim(creating.data.artists[creating.i])
     IN creating' = IF ok /\ name \in db.artists
                    THEN ArtistLoop([creating EXCEPT !.ids = @ \cup {name}],
                                    NextName(creating.data.artists, creating.i + 1))
                    ELSE [creating EXCEPT !.pc = "insertArtist"]
  /\ UNCHANGED db
  /\ CatalogUnchanged

InsertArtist(ok) ==
  /\ At("insertArtist")
  /\ LET name == trim(creating.data.artists[creating.i])
     IN IF ok
        THEN /\ db' = [db EXCEPT !.artists = @ \cup {name}]
             /\ creating' = ArtistLoop([creating EXCEPT !.ids = @ \cup {name}],
                                       NextName(creating.data.artists, creating.i + 1))
        ELSE /\ creating' = Throw(creating)
             /\ UNCHANGED db
  /\ CatalogUnchanged

LinkSongArtists(ok) ==
  /\ At("linkSongArtists")
  /\ IF ok
     THEN /\ db' = [db EXCEPT !.song_artists =
                                 @ \cup {<<creating.songId, a>> : a \in creating.ids}]
          /\ creating' = ToTags(creating)
     ELSE /\ creating' = Throw(creating)
          /\ UNCHANGED db
  /\ CatalogUnchanged

FindTag(ok) ==
  /\ At("findTag")
  /\ LET name == trim(creating.data.tags[creating.i])
     IN creating' = IF ok /\ name \in db.tags
                    THEN TagLoop([creating EXCEPT !.ids = @ \cup {name}],
                                 NextName(creating.data.tags, creating.i + 1))
                    ELSE [creating EXCEPT !.pc = "insertTag"]
  /\ UNCHANGED db
  /\ CatalogUnchanged

InsertTag(ok) ==
  /\ At("insertTag")
  /\ LET name == trim(creating.data.tags[creating.i])
     IN IF ok
        THEN /\ db' = [db EXCEPT !.tags = @ \cup {name}]
             /\ creating' = TagLoop([creating EXCEPT !.ids = @ \cup {name}],
                                    NextName(creating.data.tags, creating.i + 1))
        ELSE /\ creating' = Throw(creating)
             /\ UNCHANGED db
  /\ CatalogUnchanged

LinkSongTags(ok) ==
  /\ At("linkSongTags")
  /\ IF ok
     THEN /\ db' = [db EXCEPT !.song_tags =
                                 @ \cup {<<creating.songId, t>> : t \in creating.ids}]
          /\ creating' = ToLinks(creating)
     ELSE /\ creating' = Throw(creating)
          /\ UNCHANGED db
  /\ CatalogUnchanged

CreateSongLinks(ok) ==
  /\ At("createSongLinks")
  /\ LET links == validLinks(creating.data.links)
     IN IF ok
        THEN /\ db' = [db EXCEPT !.song_links =
                                    @ \cup {<<creating.songId, links[k].url>> : k \in 1..Len(links)}]
             /\ creating' = [creating EXCEPT !.pc = "return"]
        ELSE /\ creating' = Throw(creating)
             /\ UNCHANGED db
  /\ CatalogUnchanged

\* return { data: song, error: null } or { data: null, error: error.message }
ReturnSong ==
  /\ At("return")
  /\ creating' = [pc |-> "returned", songId |-> creating.songId, error |-> creating.error]
  /\ UNCHANGED db
  /\ CatalogUnchanged

CatalogNext ==
  \/ \E data \in SongData : CreateSong(data)
  \/ \E ok \in BOOLEAN : InsertSong(ok)
  \/ \E ok \in BOOLEAN : FindArtist(ok)
  \/ \E ok \in BOOLEAN : InsertArtist(ok)
  \/ \E ok \in BOOLEAN : LinkSongArtists(ok)
  \/ \E ok \in BOOLEAN : FindTag(ok)
  \/ \E ok \in BOOLEAN : InsertTag(ok)
  \/ \E ok \in BOOLEAN : LinkSongTags(ok)
  \/ \E ok \in BOOLEAN : CreateSongLinks(ok)
  \/ ReturnSong

CatalogSpec == Init /\ [][CatalogNext]_vars

----------------------------------------------------------------------------
(* The theme store (class ThemeManager) and the storage of the browser.     *)
(* The singleton is constructed when the page loads; what localStorage      *)
(* holds at that time is what an earlier session, another version of the    *)
(* application or the user left there.  A call of localStorage may throw    *)
(* (storage disabled, quota exceeded): whether it does is an input of the   *)
(* step that makes the call.                                                *)

NumThemeSubscribers == 2   \* number of distinct callbacks of the theme store

\* Object.keys(themes)
themeNames == {"light", "dark", "ocean"}

defaultTheme == "dark"

\* themes[name]: themes is an object literal, so a name that is no key of
\* its own is looked up on Object.prototype ("constructor" stands for the
\* names found there) and is undefined only when it is not found there
themes(name) ==
  IF name \in themeNames THEN "theme"
  ELSE IF name = "constructor" THEN "inherited"
  ELSE "undefined"

\* the names changeTheme is called with, and the texts found under the key
\* of the theme
ThemeArgs == themeNames \cup {"neon", "constructor"}
StoredThemes == {<<>>, <<"">>} \cup {<<name>> : name \in ThemeArgs}

\* a text JSON.parse throws on
Unparseable == [parses |-> FALSE, value |-> <<>>]
StoredHistories == {<<>>, <<Unparseable>>, <<stringify(<<"a">>)>>}

ThemeCallbacks == 1..NumThemeSubscribers

loadThemeFromStorage(ls, readable) ==
  IF ~readable THEN defaultTheme
  ELSE IF ls.theme # <<>> /\ ls.theme[1] # "" /\ themes(ls.theme[1]) # "undefined"
       THEN ls.theme[1]
       ELSE defaultTheme

loadSearchHistory(ls, readable) ==
  IF ~readable \/ ls.history = <<>> THEN <<>>
  ELSE IF ls.history[1].parses THEN ls.history[1].value
  ELSE <<>>

\* applyTheme: the document after the call, and whether the call threw.
\* getCSSVariables reads theme.colors, which an inherited value does not
\* have, before the class of body is touched.
applyTheme(body, themeName) ==
  CASE themes(themeName) = "undefined" -> [body |-> body, threw |-> FALSE]
    [] themes(themeName) = "inherited" -> [body |-> body, threw |-> TRUE]
    [] themes(themeName) = "theme" -> [body |-> themeName, threw |-> FALSE]

saveThemeToStorage(ls, themeName, writable) ==
  IF writable THEN [ls EXCEPT !.theme = <<themeName>>] ELSE ls

getThemeData(tm) == [currentTheme |-> tm.currentTheme]

\* what notify() does: each callback with the theme data it is handed and
\* the theme of the document at that time
Told(tm, body) ==
  [i \in 1..Len(tm.subscribers) |->
     [callback |-> tm.subscribers[i], themeData |-> getThemeData(tm), body |-> body]]

\* the outcome of a method of the theme store
Outcome(tm, body, ls, told, threw) ==
  [manager |-> tm, body |-> body, storage |-> ls, told |-> told, threw |-> threw]

\* changeTheme that notifies before it applies the theme
changeThemeNotifyFirst(tm, body, ls, themeName, writable) ==
  IF themes(themeName) = "undefined" THEN Outcome(tm, body, ls, <<>>, FALSE)
  ELSE LET set == [tm EXCEPT !.currentTheme = themeName]
           applied == applyTheme(body, themeName)
       IN IF applied.threw THEN Outcome(set, body, ls, Told(set, body), TRUE)
          ELSE Outcome(set, applied.body, saveThemeToStorage(ls, themeName, writable),
                       Told(set, body), FALSE)

changeTheme(tm, body, ls, themeName, writable) ==
  IF themes(themeName) = "undefined" THEN Outcome(tm, body, ls, <<>>, FALSE)
  ELSE LET set == [tm EXCEPT !.currentTheme = themeName]
           applied == applyTheme(body, themeName)
       IN IF applied.threw THEN Outcome(set, body, ls, <<>>, TRUE)
          ELSE Outcome(set, applied.body, saveThemeToStorage(ls, themeName, writable),
                       Told(set, applied.body), FALSE)

\* new ThemeManager(): when applyTheme throws, the constructor throws and
\* the module exports nothing
ThemeManager(ls, readable) ==
  LET loaded == loadThemeFromStorage(ls, readable)
      applied == applyTheme("", loaded)
  IN Outcome([status |-> IF applied.threw THEN "failed" ELSE "ready",
              currentTheme |-> loaded, subscribers |-> <<>>],
             applied.body, ls, <<>>, applied.threw)

\* what every step of the theme store leaves alone
ThemeUnchanged ==
  UNCHANGED <<queue, currentIndex, subscribers, stack, delivered,
              playerVars, timers, requests, searchLog, catalogVars>>

\* what localStorage holds before the page is loaded
StoredBefore(theme, history) ==
  /\ themeManager.status = "unloaded"
  /\ localStorage = EmptyStorage
  /\ localStorage' = [theme |-> theme, history |-> history]
  /\ lastCall' = [op |-> "stored"]
  /\ notified' = <<>>
  /\ UNCHANGED <<themeManager, bodyTheme, search>>
  /\ ThemeUnchanged

\* the page is loaded: the modules of the two stores are evaluated
PageLoad(readable) ==
  /\ themeManager' = ThemeManager(localStorage, readable).manager
  /\ bodyTheme' = ThemeManager(localStorage, readable).body
  /\ search' = [SearchManager EXCEPT
                  !.searchHistory = loadSearchHistory(localStorage, readable)]
  /\ lastCall' = [op |-> "load", readable |-> readable,
                  threw |-> ThemeManager(localStorage, readable).threw]
  /\ notified' = <<>>
  /\ UNCHANGED localStorage
  /\ ThemeUnchanged

ChangeTheme(themeName, writable) ==
  /\ themeManager.status = "ready"
  /\ LET r == changeTheme(themeManager, bodyTheme, localStorage, themeName, writable)
     IN /\ themeManager' = r.manager
        /\ bodyTheme' = r.body
        /\ localStorage' = r.storage
        /\ notified' = r.told
        /\ lastCall' = [op |-> "changeTheme", themeName |-> themeName,
                        writable |-> writable, threw |-> r.threw]
  /\ UNCHANGED search
  /\ ThemeUnchanged

\* subscribe(callback) of a hook that mounts
ThemeSubscribe(callback) ==
  /\ themeManager.status = "ready"
  /\ \A i \in 1..Len(themeManager.subscribers) : themeManager.subscribers[i] # callback
  /\ themeManager' = [themeManager EXCEPT !.subscribers = Append(@, callback)]
  /\ lastCall' = [op |-> "subscribe", callback |-> callback]
  /\ notified' = <<>>
  /\ UNCHANGED <<bodyTheme, localStorage, search>>
  /\ ThemeUnchanged

\* the function subscribe returned, called when the hook unmounts
ThemeUnsubscribe(callback) ==
  /\ themeManager.status = "ready"
  /\ \E i \in 1..Len(themeManager.subscribers) : themeManager.subscribers[i] = callback
  /\ themeManager' = [themeManager EXCEPT
                        !.subscribers = SelectSeq(@, LAMBDA c : c # callback)]
  /\ lastCall' = [op |-> "unsubscribe", callback |-> callback]
  /\ notified' = <<>>
  /\ UNCHANGED <<bodyTheme, localStorage, search>>
  /\ ThemeUnchanged

ThemeNext ==
  \/ \E theme \in StoredThemes, history \in StoredHistories : StoredBefore(theme, history)
  \/ \E readable \in BOOLEAN : PageLoad(readable)
  \/ \E themeName \in ThemeArgs, writable \in BOOLEAN : ChangeTheme(themeName, writable)
  \/ \E callback \in ThemeCallbacks : ThemeSubscribe(callback)
  \/ \E callback \in ThemeCallbacks : ThemeUnsubscribe(callback)

ThemeSpec == Init /\ [][ThemeNext]_vars

----------------------------------------------------------------------------
(* The search history of the search store, called method by method.  The    *)
(* store compares terms for equality only, so a term that is not in the     *)
(* history is taken from the pool in order.  An entry of the history is     *)
(* added again once per history, and a write to localStorage throws only    *)
(* while the stored copy is the one the last write left.                    *)

NumHistoryTerms == 11   \* number of distinct terms added

HistoryPool == <<"a", "ab", "abc", "b", "c", "d", "e", "f", "g", "h", "i", "j", "k">>
HistoryTerms == {HistoryPool[i] : i \in 1..NumHistoryTerms}

\* the terms the methods are called with: padded and blank ones too
HistoryArgs == HistoryTerms \cup {"ab ", " "}

Entries(history) == {history[i] : i \in 1..Len(history)}

\* clearSearchHistory: the history and localStorage after the call
clearSearchHistory(ls, writable) ==
  [history |-> <<>>,
   storage |-> IF writable THEN [ls EXCEPT !.history = <<>>] ELSE ls]

\* the stored copy is the history
InSync == loadSearchHistory(localStorage, TRUE) = search.searchHistory

\* a call the exploration takes: a blank term, the first term of the pool
\* that is not in the history, or an entry of the history when none was
\* added again since the history was empty
Explored(term) ==
  LET unused == {i \in 1..NumHistoryTerms : HistoryPool[i] \notin Entries(search.searchHistory)}
  IN \/ trim(term) = ""
     \/ unused # {} /\ trim(term) = HistoryPool[CHOOSE i \in unused : \A j \in unused : i <= j]
     \/ trim(term) \in Entries(search.searchHistory) /\ ~searchLog.readded

HistoryUnchanged ==
  UNCHANGED <<queueVars, playerVars, timers, requests, catalogVars, themeManager, bodyTheme>>

AddToSearchHistory(term, writable) ==
  /\ Explored(term)
  /\ writable \/ InSync
  /\ search' = [search EXCEPT !.searchHistory = addToSearchHistory(@, term)]
  /\ localStorage' = IF trim(term) = "" THEN localStorage
                     ELSE saveSearchHistory(localStorage, search'.searchHistory, writable)
  /\ searchLog' = [searchLog EXCEPT
                     !.event = "addToSearchHistory",
                     !.term = term,
                     !.outcome = IF writable THEN "saved" ELSE "failed",
                     !.readded = @ \/ trim(term) \in Entries(search.searchHistory)]
  /\ HistoryUnchanged

ClearSearchHistory(writable) ==
  /\ writable \/ InSync
  /\ search' = [search EXCEPT
                  !.searchHistory = clearSearchHistory(localStorage, writable).history]
  /\ localStorage' = clearSearchHistory(localStorage, writable).storage
  /\ searchLog' = [searchLog EXCEPT
                     !.event = "clearSearchHistory",
                     !.term = "",
                     !.outcome = IF writable THEN "saved" ELSE "failed",
                     !.readded = FALSE]
  /\ HistoryUnchanged

HistoryNext ==
  \/ \E term \in HistoryArgs, writable \in BOOLEAN : AddToSearchHistory(term, writable)
  \/ \E writable \in BOOLEAN : ClearSearchHistory(writable)

HistorySpec == Init /\ [][HistoryNext]_vars

----------------------------------------------------------------------------
(* Vocabulary of the properties *)

QueueOps == {"add", "playNow", "remove", "clear", "next", "previous"}

IndexInBounds(q, ci) == ci = -1 \/ (0 <= ci /\ ci < Len(q))

NoDuplicateUrls(q) == \A i, j \in 1..Len(q) : i # j => q[i].url # q[j].url

InQueue(q, url) == \E i \in 1..Len(q) : q[i].url = url

\* the entries other than the one with the given url, in queue order
Others(q, url) == SelectSeq(q, LAMBDA e : e.url # url)

\* items non-empty and nothing selected
PopulatedNothingSelected == Len(queue) > 0 /\ currentIndex = -1

----------------------------------------------------------------------------
(* C1: index-bounds invariant -- after any sequence of queue operations    *)
(* from the empty queue, currentIndex is -1 or 0 <= currentIndex <         *)
(* items.length.                                                           *)

C1_IndexBounds == IndexInBounds(queue, currentIndex)

\* the last entry was current and has just been removed
C1_Witness ==
  /\ lastCall.op = "remove"
  /\ ~InQueue(queue, lastCall.url)
  /\ Len(queue) = 2
  /\ currentIndex = 1

(* C2: no-duplicate invariant -- after any sequence of queue operations    *)
(* from the empty queue, no two entries of items have the same url.        *)

C2_NoDuplicates == NoDuplicateUrls(queue)

\* add was called with a url that was already queued, not as the last entry
C2_Witness ==
  /\ lastCall.op = "add"
  /\ ~Falsy(lastCall.item)
  /\ InQueue(queue, lastCall.item.url)
  /\ queue[Len(queue)].url # lastCall.item.url

(* C3: playNow(item) with a non-empty url -- afterwards the entry at index *)
(* 0 has item's url and currentIndex = 0; the other entries keep their     *)
(* relative order; the length is unchanged when the url was queued and     *)
(* grows by one otherwise; when the url was queued the entry at index 0 is *)
(* the old entry's fields overridden by the new item's fields.             *)

C3_PlayNow ==
  [][(lastCall'.op = "playNow" /\ ~Falsy(lastCall'.item)) =>
       LET item == lastCall'.item IN
       /\ Len(queue') >= 1
       /\ queue'[1].url = item.url
       /\ currentIndex' = 0
       /\ Others(queue', item.url) = Others(queue, item.url)
       /\ IF InQueue(queue, item.url)
          THEN /\ Len(queue') = Len(queue)
               /\ \A i \in 1..Len(queue) : queue[i].url = item.url =>
                    /\ DOMAIN queue'[1] = DOMAIN queue[i] \cup DOMAIN item
                    /\ \A k \in DOMAIN item : queue'[1][k] = item[k]
                    /\ \A k \in DOMAIN queue[i] \ DOMAIN item : queue'[1][k] = queue[i][k]
          ELSE Len(queue') = Len(queue) + 1]_vars

\* an entry with a title was played again without a title and moved to the front
C3_Witness ==
  /\ lastCall.op = "playNow"
  /\ lastCall.item \in ValidItems
  /\ "title" \notin DOMAIN lastCall.item
  /\ Len(queue) = 3
  /\ "title" \in DOMAIN queue[1]
  /\ currentIndex = 0

(* C4: remove(url) of an entry before currentIndex decrements currentIndex *)
(* by exactly one, so the current item keeps its url; remove of an entry   *)
(* after currentIndex leaves currentIndex and the current item unchanged.  *)

C4_RemoveOther ==
  [][lastCall'.op = "remove" =>
       \A i \in 0..(Len(queue) - 1) : queue[i + 1].url = lastCall'.url =>
         /\ i < currentIndex =>
              /\ currentIndex' = currentIndex - 1
              /\ getState'.currentItem # Null
              /\ getState'.currentItem.url = getState.currentItem.url
         /\ i > currentIndex =>
              /\ currentIndex' = currentIndex
              /\ getState'.currentItem = getState.currentItem]_vars

\* an entry before the current one has been removed
C4_Witness ==
  /\ lastCall.op = "remove"
  /\ lastCall.url \in Urls
  /\ ~InQueue(queue, lastCall.url)
  /\ Len(queue) = 2
  /\ currentIndex = 0
  /\ notified # <<>>

(* C5: remove(url) of the entry at currentIndex sets currentIndex to       *)
(* min(removedIndex, newLength - 1) when the queue is still non-empty and  *)
(* to -1 when it became empty: the selection falls to the entry that slid  *)
(* into the removed slot, or to the new last entry when the removed entry  *)
(* was last.                                                               *)

C5_RemoveCurrent ==
  [][lastCall'.op = "remove" =>
       \A i \in 0..(Len(queue) - 1) :
         (queue[i + 1].url = lastCall'.url /\ i = currentIndex) =>
           /\ Len(queue') = Len(queue) - 1
           /\ currentIndex' = IF Len(queue') > 0 THEN Min(i, Len(queue') - 1) ELSE -1
           /\ i < Len(queue) - 1 => getState'.currentItem = queue[i + 2]
           /\ (i = Len(queue) - 1 /\ i > 0) => getState'.currentItem = queue[i]
           /\ Len(queue) = 1 => getState'.currentItem = Null]_vars

\* the current entry, not the last one, has been removed from a queue of three
C5_Witness ==
  /\ lastCall.op = "remove"
  /\ lastCall.url \in Urls
  /\ ~InQueue(queue, lastCall.url)
  /\ Len(queue) = 2
  /\ currentIndex = 1
  /\ notified = subscribers
  /\ subscribers # <<>>

(* C6: add(item) is a no-op when item.url is falsy or already present;     *)
(* otherwise it appends item as the last entry.  In every case             *)
(* currentIndex is unchanged, the existing entries keep their positions    *)
(* and the length grows by at most one.                                    *)

C6_Add ==
  [][lastCall'.op = "add" =>
       LET item == lastCall'.item IN
       /\ IF Falsy(item) \/ InQueue(queue, item.url)
          THEN queue' = queue
          ELSE queue' = Append(queue, item)
       /\ currentIndex' = currentIndex
       /\ Len(queue') <= Len(queue) + 1
       /\ \A i \in 1..Len(queue) : queue'[i] = queue[i]]_vars

\* an item was appended to a queue that has a selection
C6_Witness ==
  /\ lastCall.op = "add"
  /\ ~Falsy(lastCall.item)
  /\ Len(queue) = 3
  /\ queue[3] = lastCall.item
  /\ currentIndex = 1

(* C7 as stated: next() at currentIndex = items.length - 1 and previous()  *)
(* at currentIndex = 0 leave the state unchanged; in every other state     *)
(* next() changes currentIndex by +1 and previous() by -1; neither changes *)
(* items.                                                                  *)

C7_Original ==
  [][/\ lastCall'.op = "next" =>
          /\ queue' = queue
          /\ currentIndex' = IF currentIndex = Len(queue) - 1
                             THEN currentIndex ELSE currentIndex + 1
     /\ lastCall'.op = "previous" =>
          /\ queue' = queue
          /\ currentIndex' = IF currentIndex = 0
                             THEN currentIndex ELSE currentIndex - 1]_vars

(* C7 amended: next() at currentIndex = items.length - 1 and previous() at *)
(* currentIndex <= 0 (index 0 or no selection) leave the state unchanged;  *)
(* in every other state next() changes currentIndex by +1 and previous()   *)
(* by -1; neither changes items.                                           *)

C7_NoWraparound ==
  [][/\ lastCall'.op = "next" =>
          /\ queue' = queue
          /\ currentIndex' = IF currentIndex = Len(queue) - 1
                             THEN currentIndex ELSE currentIndex + 1
     /\ lastCall'.op = "previous" =>
          /\ queue' = queue
          /\ currentIndex' = IF currentIndex <= 0
                             THEN currentIndex ELSE currentIndex - 1]_vars

\* previous() was called on a populated queue and the first entry is current
C7_Witness ==
  /\ lastCall.op = "previous"
  /\ Len(queue) = 3
  /\ currentIndex = 0
  /\ notified = <<>>
  /\ subscribers # <<>>

(* C8 as stated: the state "populated, nothing selected" is not reached by *)
(* any sequence of queue operations starting from the empty queue.         *)

C8_Original == ~PopulatedNothingSelected

(* C8 amended: the state "populated, nothing selected" is entered only by  *)
(* add(item) on the empty queue; no other operation enters it, and no      *)
(* operation leads to it from a state that has a selection.                *)

C8_EnteredOnlyByAdd ==
  [][(PopulatedNothingSelected' /\ ~PopulatedNothingSelected) =>
       /\ lastCall'.op = "add"
       /\ queue = <<>>
       /\ currentIndex = -1]_vars

\* add(item) on the empty queue has left one entry and no selection
C8_Witness ==
  /\ lastCall.op = "add"
  /\ Len(queue) = 1
  /\ queue[1] = lastCall.item
  /\ PopulatedNothingSelected

(* C9 as stated: every call of a queue operation ends by notifying all     *)
(* current subscribers, including the calls that turn out to be no-ops.    *)

C9_Original ==
  [][lastCall'.op \in QueueOps => notified' = subscribers]_vars

\* the calls that return before reaching notify()
ReturnsEarly(call) ==
  \/ call.op = "add" /\ (Falsy(call.item) \/ InQueue(queue, call.item.url))
  \/ call.op = "playNow" /\ Falsy(call.item)
  \/ call.op = "remove" /\ ~InQueue(queue, call.url)
  \/ call.op = "next" /\ currentIndex >= Len(queue) - 1
  \/ call.op = "previous" /\ currentIndex <= 0

(* C9 amended: every call of a queue operation that changes items or       *)
(* currentIndex, every playNow with a non-empty url and every clear ends   *)
(* by notifying all current subscribers; the calls that turn out to be     *)
(* no-ops (falsy or duplicate url in add, falsy url in playNow, unknown    *)
(* url in remove, next at the last index, previous at index <= 0) return   *)
(* without notifying anyone.                                               *)

C9_NotifyOnChange ==
  [][lastCall'.op \in QueueOps =>
       /\ ReturnsEarly(lastCall') =>
            (notified' = <<>> /\ queue' = queue /\ currentIndex' = currentIndex)
       /\ ~ReturnsEarly(lastCall') => notified' = subscribers
       /\ (queue' # queue \/ currentIndex' # currentIndex) => notified' = subscribers]_vars

\* next() advanced the selection and both subscribers were called
C9_Witness ==
  /\ lastCall.op = "next"
  /\ currentIndex = 1
  /\ Len(queue) = 2
  /\ Len(notified) = NumSubscribers

\* the statements that assign this.queue or this.currentIndex
Mutating == {"push", "splice", "adjust", "setQueue", "setIndex"}

\* a method frame that still has an assignment to the store ahead of it
MidMutation(f) ==
  /\ f.kind = "method"
  /\ \E j \in 1..Len(Body(f.call.op)) : j >= f.pc /\ Body(f.call.op)[j] \in Mutating

\* the frames below the callback that was invoked last
BelowCallback == {j \in 1..Len(stack) : \A k \in Callbacks : j < k}

(* C10: every snapshot delivered to a subscriber is the fully-applied      *)
(* post-mutation state -- it satisfies the index-bounds and no-duplicate   *)
(* invariants, its currentItem is items[currentIndex] (null when           *)
(* currentIndex = -1), and no method below the invoked callback is between *)
(* its change of items and its change of currentIndex -- also when a       *)
(* subscriber itself calls a queue method during notification.             *)

C10_Snapshots ==
  delivered # NoSnapshot =>
    LET snap == delivered.state IN
    /\ IndexInBounds(snap.queue, snap.currentIndex)
    /\ NoDuplicateUrls(snap.queue)
    /\ snap.currentItem =
         IF snap.currentIndex = -1 THEN Null ELSE snap.queue[snap.currentIndex + 1]
    /\ \A j \in BelowCallback : ~MidMutation(stack[j])

\* inside a notification a subscriber called a method that emptied the queue,
\* and a subscriber is handed the empty queue while the outer forEach is pending
C10_Witness ==
  /\ Len(stack) = 4
  /\ stack[1].kind = "notify"
  /\ stack[2].kind = "callback"
  /\ stack[3].kind = "notify"
  /\ stack[4].kind = "callback"
  /\ delivered # NoSnapshot
  /\ delivered.state = [queue |-> <<>>, currentIndex |-> -1, currentItem |-> Null]
  /\ Len(subscribers) = NumSubscribers

----------------------------------------------------------------------------
(* C11: malformed queue operations are silent no-ops -- add or playNow     *)
(* with a missing item or a falsy url, and remove with a url that is not   *)
(* queued, leave items and currentIndex as they were and raise no error.   *)

MalformedCall(call) ==
  \/ call.op \in {"add", "playNow"} /\ call.item \in MalformedItems
  \/ call.op = "remove" /\ ~InQueue(queue, call.url)

C11_MalformedNoOp ==
  [][(lastCall'.op \in {"add", "playNow", "remove"} /\ MalformedCall(lastCall')) =>
       /\ queue' = queue
       /\ currentIndex' = currentIndex
       /\ ~lastCall'.threw]_vars

\* playNow(null) was called on a queue of three with the last entry current
C11_Witness ==
  /\ lastCall.op = "playNow"
  /\ lastCall.item = Null
  /\ ~lastCall.threw
  /\ Len(queue) = 3
  /\ currentIndex = 2

(* C20: playNow is idempotent in position -- a second playNow of the same  *)
(* url directly after the first leaves items.length and the order of the   *)
(* items as the first call left them, and currentIndex is 0 after each.    *)

UrlsOf(q) == [i \in 1..Len(q) |-> q[i].url]

C20_PlayNowTwice ==
  [][(lastCall'.op = "playNow" /\ lastCall'.again) =>
       /\ currentIndex = 0
       /\ currentIndex' = 0
       /\ Len(queue') = Len(queue)
       /\ UrlsOf(queue') = UrlsOf(queue)]_vars

\* the first url was played twice in a row, the second time with title T2
C20_Witness ==
  /\ lastCall.op = "playNow"
  /\ lastCall.again
  /\ lastCall.item = [url |-> UrlPool[1], title |-> "T2"]
  /\ Len(queue) = 3
  /\ queue[1] = lastCall.item
  /\ currentIndex = 0

----------------------------------------------------------------------------
(* C12: auto-advance -- each 'ended' event of the mounted YouTube player    *)
(* causes exactly one call of next() and every other player state causes    *)
(* none; so when the current item is not the last one currentIndex grows by *)
(* exactly one, and when it is the last one or the queue is empty the queue *)
(* state is unchanged.                                                      *)

C12_AutoAdvance ==
  [][lastCall'.op = "stateChange" =>
       /\ lastCall'.calls = (IF lastCall'.data = ENDED THEN <<"next">> ELSE <<>>)
       /\ queue' = queue
       /\ currentIndex' = IF lastCall'.data = ENDED /\ currentIndex < Len(queue) - 1
                          THEN currentIndex + 1
                          ELSE currentIndex]_vars

\* playNow(a), add(b), ended, and ended again on the player of b: a no-op
C12_Witness ==
  /\ lastCall.op = "stateChange" /\ lastCall.data = ENDED
  /\ UrlsOf(queue) = <<UrlPool[1], UrlPool[2]>>
  /\ currentIndex = 1
  /\ \E e \in Current(effects) : e.player = "live"

----------------------------------------------------------------------------
(* C17: the iframe-API script is requested at most once -- however many     *)
(* effects call ensureYoutubeApi before the API is ready, one script        *)
(* element is appended, every caller waits on the same promise, and that    *)
(* promise is resolved for all of them once the API signalled readiness.    *)

Waiting == {e \in effects : e.player = "none" /\ e.awaits # 0}

C17_OneScript ==
  /\ ytApi.scripts <= 1
  /\ Waiting # {} => ytApi.scripts = 1
  /\ \A e \in Waiting : e.awaits = ytApi.promise
  /\ ytApi.loaded => \A e \in Waiting : e.awaits \in ytApi.resolved

\* two effects called ensureYoutubeApi before the API was ready, and the
\* API is ready now
C17_Witness ==
  /\ ytApi.loaded
  /\ Cardinality(Waiting) = 2
  /\ ytApi.scripts = 1

----------------------------------------------------------------------------
(* C18: cleanup cancels an in-flight mount -- an effect that was cleaned up *)
(* before its promise callback ran never constructs a player; a constructed *)
(* player is destroyed by the cleanup of its effect, and an error thrown by *)
(* destroy does not escape the cleanup; so every constructed player belongs *)
(* to the one effect that is current, and there is at most one.             *)

Constructed == {e \in effects : e.player # "none"}

C18_CleanupCancels ==
  /\ \A e \in effects : e.cancelled => e.player = "none"
  /\ Constructed \subseteq Current(effects)
  /\ Cardinality(Current(effects)) <= 1
  /\ Constructed # {} => CurrentKey(effects) = EffectKey(queueState, modalVideoUrl)
  /\ "threw" \in DOMAIN lastCall => ~lastCall.threw

\* the callback of a cancelled effect ran after the player of its successor
\* was constructed
C18_Witness ==
  /\ lastCall.op = "then" /\ lastCall.cancelled
  /\ Cardinality(effects) = 1
  /\ \E e \in effects : e.player = "live"

----------------------------------------------------------------------------
(* C19: the Previous and Next controls of the sidebar are disabled exactly  *)
(* when the store operation would leave currentIndex unchanged: Previous    *)
(* iff currentIndex <= 0, Next iff currentIndex >= queue.length - 1, in     *)
(* every reachable state, the empty queue and currentIndex = -1 included.   *)

C19_DisabledIffNoOp ==
  queueState # NoSnapshot =>
    /\ queueState = getState
    /\ PreviousDisabled(queueState) <=> previous.currentIndex = currentIndex
    /\ PreviousDisabled(queueState) <=> currentIndex <= 0
    /\ NextDisabled(queueState) <=> next.currentIndex = currentIndex
    /\ NextDisabled(queueState) <=> currentIndex >= Len(queue) - 1

\* the sidebar shows a queue of two with nothing selected: Previous is
\* disabled and Next is not
C19_Witness ==
  /\ queueState # NoSnapshot
  /\ Rendered(queueState, modalVideoUrl)
  /\ Len(queue) = 2 /\ currentIndex = -1
  /\ PreviousDisabled(queueState) /\ ~NextDisabled(queueState)

----------------------------------------------------------------------------
(* C13: debounce collapse -- for a burst of setSearchTerm calls, each less  *)
(* than 300 ms after the one before, exactly one executeSearch runs: it     *)
(* starts 300 ms after the last call and queries with the last term.  Until *)
(* it has run exactly one debounce timer is pending, set to fire 300 ms     *)
(* after the last call; once it has run none is.                            *)

DebounceTimers == {t \in timers : t.kind = "search"}

C13_DebounceCollapse ==
  [][/\ searchLog'.event = "execute" =>
          /\ searchLog'.waited = debounceDelay
          /\ searchLog'.term = trim(searchLog'.last)
          /\ searchLog'.runs = 1
     /\ searchLog'.calls > 0 /\ searchLog'.runs = 0 =>
          /\ Cardinality(DebounceTimers') = 1
          /\ \A t \in DebounceTimers' : t.remaining = debounceDelay - searchLog'.idle
     /\ searchLog'.calls > 0 /\ searchLog'.runs > 0 => DebounceTimers' = {}]_vars

\* a burst of three calls ended with "ab", and its one search started
C13_Witness ==
  /\ searchLog.event = "execute"
  /\ searchLog.calls = 3
  /\ searchLog.term = "ab"
  /\ searchLog.waited = debounceDelay
  /\ Len(requests) = 1

----------------------------------------------------------------------------
(* C15: a failed search leaves the results unchanged -- when the query of   *)
(* executeSearch returns an error or throws, state.results and              *)
(* state.totalCount are afterwards what they were before.                   *)

C15_FailedSearchKeepsResults ==
  [][searchLog'.event = "completed" /\ searchLog'.outcome # "ok" =>
       /\ search'.results = search.results
       /\ search'.totalCount = search.totalCount]_vars

----------------------------------------------------------------------------
(* C14 as stated: if a suggestion fetch started for input q1 is in flight   *)
(* when getSuggestions is called with a different input q2 (both at least 2 *)
(* characters), the completion of the q1 fetch never writes                 *)
(* state.suggestions.                                                       *)

C14_Original ==
  [][searchLog'.event = "fetched" /\ searchLog'.stale => ~searchLog'.wrote]_vars

(* C14 amended: the completion of such a q1 fetch writes state.suggestions  *)
(* only if the latest getSuggestions call with an input of at least 2       *)
(* characters had, at that time, the lower-cased input of q1 -- q1 was      *)
(* requested again after q2, or the inputs differ in letter case only; in   *)
(* every other case it leaves state.suggestions as it was.                  *)

C14_StaleDiscard ==
  [][searchLog'.event = "fetched" /\ searchLog'.stale =>
       IF searchLog'.wrote
       THEN toLowerCase(searchLog'.latest) = toLowerCase(searchLog'.term)
       ELSE search'.suggestions = search.suggestions]_vars

\* the fetch for "ro" completed after the one for "rock" and wrote nothing
C14_Witness ==
  /\ searchLog.event = "fetched" /\ searchLog.term = "ro"
  /\ searchLog.stale /\ ~searchLog.wrote
  /\ searchLog.latest = "rock"
  /\ search.suggestions = suggestionsFor("rock", "ok")

----------------------------------------------------------------------------
(* C16: createSong is all-or-nothing -- when a step after the insert of the *)
(* song row fails, the call returns an error and neither the song row nor   *)
(* any link row created by the call remains in the tables.                  *)

RowsOf(songId) ==
  {r \in db.song_artists \cup db.song_tags \cup db.song_links : r[1] = songId}

C16_AllOrNothing ==
  creating.pc = "returned" /\ creating.error =>
    /\ creating.songId \notin db.songs
    /\ RowsOf(creating.songId) = {}

----------------------------------------------------------------------------
(* C28: from a state with a non-empty queue and currentIndex = -1, next()   *)
(* selects the first entry (currentIndex becomes 0) and notifies,           *)
(* previous() changes nothing and notifies nobody, and getState() in that   *)
(* state yields currentItem = null.                                         *)

C28_FromNothingSelected ==
  [][PopulatedNothingSelected =>
       /\ getState.currentItem = Null
       /\ lastCall'.op = "next" =>
            /\ queue' = queue
            /\ currentIndex' = 0
            /\ notified' = notify
       /\ lastCall'.op = "previous" =>
            /\ queue' = queue
            /\ currentIndex' = -1
            /\ notified' = <<>>]_vars

\* next() has selected the first of two entries: it was called with no
\* selection, since at a selection it either moves past index 0 or stays at
\* the last index
C28_Witness ==
  /\ lastCall.op = "next"
  /\ Len(queue) = 2
  /\ currentIndex = 0
  /\ getState.currentItem = queue[1]
  /\ notified # <<>>

----------------------------------------------------------------------------
(* C22: changeTheme(name) with a name outside the fixed theme set changes   *)
(* nothing -- currentTheme, the persisted selection and the applied theme   *)
(* stay as they were and no subscriber is notified; with a name in the set  *)
(* it sets currentTheme to name, persists name, and notifies every          *)
(* subscriber exactly once with the new theme.                              *)

C22_ChangeTheme ==
  [][lastCall'.op = "changeTheme" =>
       IF lastCall'.themeName \notin themeNames
       THEN /\ themeManager' = themeManager
            /\ localStorage' = localStorage
            /\ bodyTheme' = bodyTheme
            /\ notified' = <<>>
       ELSE /\ themeManager'.currentTheme = lastCall'.themeName
            /\ localStorage'.theme = <<lastCall'.themeName>>
            /\ Len(notified') = Len(themeManager.subscribers)
            /\ \A i \in 1..Len(notified') :
                 /\ notified'[i].callback = themeManager.subscribers[i]
                 /\ notified'[i].themeData.currentTheme = lastCall'.themeName]_vars

----------------------------------------------------------------------------
(* C23: on every successful changeTheme the theme has been applied to the   *)
(* document before any subscriber is notified -- whenever a callback runs,  *)
(* the theme of the document equals the currentTheme the callback is told,  *)
(* which is the currentTheme of the store.                                  *)

C23_AppliedBeforeNotify ==
  lastCall.op = "changeTheme" =>
    \A i \in 1..Len(notified) :
      /\ notified[i].body = notified[i].themeData.currentTheme
      /\ notified[i].themeData.currentTheme = themeManager.currentTheme
      /\ themeManager.currentTheme = lastCall.themeName

\* changeTheme("ocean") has told two subscribers, with the document already
\* on the ocean theme
C23_Witness ==
  /\ lastCall.op = "changeTheme"
  /\ lastCall.themeName = "ocean"
  /\ Len(notified) = 2
  /\ notified[2].body = "ocean"
  /\ notified[2].themeData.currentTheme = "ocean"
  /\ bodyTheme = "ocean"

----------------------------------------------------------------------------
(* C24: persisted state falls back to defaults without raising -- loading   *)
(* the page never throws; a missing, unreadable or unrecognised stored      *)
(* theme yields currentTheme = 'dark'; currentTheme is one of light, dark,  *)
(* ocean at start-up and after any sequence of changeTheme calls; a missing *)
(* or unparseable stored search history yields an empty history.            *)

C24_FallBackToDefaults ==
  [][/\ themeManager'.status # "failed"
     /\ themeManager'.status = "ready" => themeManager'.currentTheme \in themeNames
     /\ lastCall'.op = "load" =>
          /\ ~lastCall'.threw
          /\ (\/ ~lastCall'.readable
              \/ localStorage.theme = <<>>
              \/ localStorage.theme[1] \notin themeNames)
               => themeManager'.currentTheme = defaultTheme
          /\ (\/ ~lastCall'.readable
              \/ localStorage.history = <<>>
              \/ ~localStorage.history[1].parses)
               => search'.searchHistory = <<>>]_vars

----------------------------------------------------------------------------
(* C21 as stated: starting from an empty history, after every call of       *)
(* addToSearchHistory or clearSearchHistory the history has no duplicates   *)
(* and at most 10 entries and is ordered most-recent-first -- the term      *)
(* added last is at index 0, the other entries follow in their old order,   *)
(* and adding an entry again leaves the length as it was; the persisted     *)
(* copy equals the history after every call.                                *)

HistoryCall == searchLog'.event \in {"addToSearchHistory", "clearSearchHistory"}

\* the history after a call has no duplicates and at most 10 entries; after
\* an add of a term that is not empty the old entries other than term follow
\* index 0 in their old order
Deduplicated(term) ==
  LET history == search'.searchHistory
      rest == SelectSeq(search.searchHistory, LAMBDA item : item # term)
  IN /\ \A i, j \in 1..Len(history) : history[i] = history[j] => i = j
     /\ Len(history) <= HistoryLimit
     /\ searchLog'.event = "clearSearchHistory" => history = <<>>
     /\ searchLog'.event = "addToSearchHistory" /\ term # "" =>
          /\ \A i \in 2..Len(history) : history[i] = rest[i - 1]
          /\ term \in Entries(search.searchHistory) =>
               Len(history) = Len(search.searchHistory)

C21_Original ==
  [][HistoryCall =>
       /\ Deduplicated(searchLog'.term)
       /\ searchLog'.event = "addToSearchHistory" =>
            /\ search'.searchHistory # <<>>
            /\ search'.searchHistory[1] = searchLog'.term
       /\ loadSearchHistory(localStorage', TRUE) = search'.searchHistory]_vars

(* C21 amended: starting from an empty history, after every call of         *)
(* addToSearchHistory or clearSearchHistory the history has no duplicates   *)
(* and at most 10 entries and is ordered most-recent-first -- a term that   *)
(* is blank after trimming changes nothing, otherwise the trimmed term is   *)
(* at index 0, the other entries follow in their old order, and adding an   *)
(* entry again leaves the length as it was; the persisted copy equals the   *)
(* history after every call whose write to storage succeeded, and is left   *)
(* as it was by a call whose write threw or that wrote nothing.             *)

C21_SearchHistory ==
  [][HistoryCall =>
       /\ Deduplicated(trim(searchLog'.term))
       /\ searchLog'.event = "addToSearchHistory" =>
            IF trim(searchLog'.term) = ""
            THEN search'.searchHistory = search.searchHistory
            ELSE /\ search'.searchHistory # <<>>
                 /\ search'.searchHistory[1] = trim(searchLog'.term)
       /\ IF /\ searchLog'.outcome = "saved"
             /\ searchLog'.event = "addToSearchHistory" => trim(searchLog'.term) # ""
          THEN loadSearchHistory(localStorage', TRUE) = search'.searchHistory
          ELSE localStorage' = localStorage]_vars

\* the eleventh distinct term was added to a history in which an entry had
\* been added again: the history holds 10 entries, the first term added is
\* gone, and the persisted copy is the history
C21_Witness ==
  /\ searchLog.event = "addToSearchHistory"
  /\ searchLog.term = HistoryPool[11]
  /\ searchLog.readded
  /\ searchLog.outcome = "saved"
  /\ Len(search.searchHistory) = HistoryLimit
  /\ search.searchHistory[1] = HistoryPool[11]
  /\ HistoryPool[1] \notin Entries(search.searchHistory)
  /\ InSync

----------------------------------------------------------------------------
(* C25: queue auto-advance never fires for Spotify or unknown-platform      *)
(* items -- while the active url is not a YouTube url, no event of a player *)
(* adapter (the iframe API becoming ready, a promise callback, a player     *)
(* state report, a failing iframe) calls next() or changes the queue or     *)
(* currentIndex; they change through user operations only.                  *)

AdapterEvents == {"apiReady", "then", "breaks", "stateChange"}

C25_NoAutoAdvanceOffYoutube ==
  [][/\ lastCall'.op \in AdapterEvents
     /\ platform(activeUrl(queueState, modalVideoUrl)) # "youtube"
     => /\ queue' = queue
        /\ currentIndex' = currentIndex
        /\ lastCall'.op = "stateChange" =>
             /\ lastCall'.calls = <<>>
             /\ notified' = <<>>]_vars

\* the promise callback of a YouTube effect ran while the Spotify item was
\* current and another entry was waiting behind it: it found the effect
\* cancelled and the queue stayed as it was
C25_Witness ==
  /\ lastCall.op = "then"
  /\ lastCall.cancelled
  /\ platform(activeUrl(queueState, modalVideoUrl)) = "spotify"
  /\ Len(queue) = 2
  /\ currentIndex = 0
  /\ isSpotifyUrl(queue[1].url)
  /\ effects = {}

----------------------------------------------------------------------------
(* C30: closing the sidebar hides it -- after the user triggers Close,      *)
(* which clears the url passed to the sidebar, the sidebar is not rendered, *)
(* in every queue state, including when the queue still has a current item. *)

C30_CloseHides ==
  lastCall.op = "close" => ~Rendered(queueState, modalVideoUrl)

----------------------------------------------------------------------------
(* C26: when two executeSearch calls overlap, then once both have completed *)
(* state.results holds the result of the search that was started last,      *)
(* whichever response arrives first -- the response of a search does not    *)
(* change state.results when a search that was started later has already    *)
(* completed.                                                               *)

C26_LastStartedWins ==
  [][searchLog'.event = "completed" /\ searchLog'.stale =>
       search'.results = search.results]_vars

----------------------------------------------------------------------------
(* C27: after getSuggestions is called with an input shorter than 2         *)
(* characters, state.suggestions is empty and stays empty until a later     *)
(* getSuggestions call with an input of at least 2 characters completes --  *)
(* as long as the most recent call had a short input the suggestions are    *)
(* empty, also when a fetch for an earlier, longer input is in flight.      *)

C27_ShortInputStaysEmpty ==
  TooShort(searchLog.last) => search.suggestions = <<>>

----------------------------------------------------------------------------
(* C29: the isPlaying flag of the sidebar agrees with the mounted YouTube   *)
(* player after any sequence of play/pause clicks and track changes -- a    *)
(* player that plays has isPlaying = true and a paused one isPlaying =      *)
(* false; when a new track is mounted isPlaying is true; a click on a       *)
(* playing track sends 'pauseVideo', never 'playVideo'.                     *)

C29_IsPlayingAgrees ==
  [][/\ \A e \in effects' : /\ e.player = "live" => isPlaying'
                            /\ e.player = "paused" => ~isPlaying'
     /\ lastCall'.op = "then" /\ ~lastCall'.cancelled => isPlaying'
     /\ lastCall'.op = "playPause" /\ lastCall'.playing =>
          lastCall'.command \in {"none", "pauseVideo"}]_vars

====
